---- MODULE Spec2Model ----
(***************************************************************************)
(* Model of the inertial dead-reckoning pipeline of vehicle_dynamics_Blender *)
(* (src/src/integrate.py, src/src/clean_data_utils.py, src/src/rotations.py, *)
(* src/src/gnss_utils.py).                                                  *)
(*                                                                         *)
(* Floating-point numbers are modelled as exact rationals [n, d] in lowest  *)
(* terms; rounding is not modelled.  Arrays keep the source's 0-based       *)
(* indices: a 1xn array is a function on 0..n-1, a rows x n array a         *)
(* function on 0..rows-1 of such functions.                                 *)
(***************************************************************************)
EXTENDS Integers, Sequences, FiniteSets, TLC

VARIABLES
    pc,                 \* position of the running call
    \* ---- integrate.py: cumulative_integrate / simps_integrate_delta
    times,              \* 1xn timestamps
    vectors,            \* rows x n series to integrate
    initial,            \* None or the rows initial values
    adjust_data,        \* None or the rows x n reference
    adjust_frequency,   \* None or the adjustment period
    deltas,             \* simps_integrate_delta: its result array
    integrators,        \* simps_integrate_delta: last fitted parabolas (None before the first fit)
    x,                  \* simps_integrate_delta: knots of the last fit
    si,                 \* simps_integrate_delta: loop variable i (None while unbound)
    delta_vectors,      \* cumulative_integrate: deltas returned by delta_integrate_func
    result_vectors,     \* cumulative_integrate: running result
    ci,                 \* cumulative_integrate: loop variable i
    \* ---- integrate.py / rotations.py: rotate_accelerations,  gnss_utils.py: align_to_world
    impl,               \* the module whose rotate_accelerations runs
    accelerations,      \* 3xn accelerations, one 3-vector per sample
    delta_thetas,       \* 3xn delta rotation vectors returned by simps_integrate_delta
    initial_angular_position,
    initial_quaternion,
    quaternions,        \* the delta quaternions, after reduce the attitude list
    array,              \* the list reduce accumulates
    reduced,            \* number of delta quaternions reduce has consumed
    angular_positions,  \* returned attitude series, one quaternion per sample
    gnss_position,      \* 3xn positions from gnss data
    stationary_times,   \* list of (start, end)
    wi,                 \* align_to_world: i
    size,               \* align_to_world: size
    motion_time_end,    \* align_to_world: motion_time_end
    rotation_angle,     \* align_to_world: rotation_angle, <<quarter turns, 0>> or NaN <<0, 1>>
    new_vectors,        \* align_to_world: the rotated vectors it returns
    \* ---- clean_data_utils.py: get_stationary_times
    gps_speed,          \* 1xn gps speed
    speed_threshold,    \* get_stationary_times: speed_threshold
    first_true,         \* get_stationary_times: first_true (None for math.inf)
    last_true,          \* get_stationary_times: last_true (None for math.inf)
    ti,                 \* get_stationary_times: loop variable i
    \* ---- clean_data_utils.py: clear_gyro_drift / correct_z_orientation
    stage,              \* the function that runs
    angular_velocities, \* 3xn angular velocities, one 3-vector per sample
    bi,                 \* position of "for stationary_time in stationary_times[1:]"
    \* ---- clean_data_utils.py: reduce_disturbance
    window_argument,    \* the window_dimension the caller passed
    window_dimension,   \* reduce_disturbance: window_dimension
    rj,                 \* reduce_disturbance: loop variable j
    rd_times,           \* reduce_disturbance: the times it returns
    rd_vectors,         \* reduce_disturbance: the vectors it returns
    \* ---- the arrays a caller handed to a stage of clean_data_utils.py
    arg_accelerations,  \* accelerations as passed; a stage rebinds its own name, not this
    arg_angular_velocities,  \* angular_velocities as passed
    \* ---- clean_data_utils.py: correct_xy_orientation
    candidates,         \* x1, x2, x3, x4 of get_bad_alignment_vectors
    xk,                 \* position of min() in [x1, x2, x3, x4]
    best_bad_vector,    \* the candidate min() holds so far
    best_key,           \* its key, the count after rotating by it
    \* ---- rotations.py: align_to_world
    motion_time,        \* index of the sample the bearings are read at
    \* ---- clean_data_utils.py: sign_inversion_is_necessary
    velocities,         \* 3xn array of velocities
    sign_inversion,     \* the value returned
    \* ---- __main__.py: get_positions_times
    raw_times,          \* the array parse_input returned as times
    times_in,           \* its values when it was handed to reduce_disturbance
    times_view,         \* <<lo, hi>>, the slice of raw_times the name times is bound to
    series_len,         \* columns of accelerations and of angular_velocities
    gnss_view,          \* <<lo, hi>>, the slice of the GNSS positions in gnss_positions
    stages,             \* the stages that have returned, in order
    \* ---- gnss_utils.py: get_velocities
    positions,          \* 3xn GNSS positions in the cartesian system, one <<x, y, z>> per sample
    win_size,           \* samples between two velocity estimates
    vi                  \* loop index i of get_velocities

intVars == <<times, vectors, initial, adjust_data, adjust_frequency, deltas,
             integrators, x, si, delta_vectors, result_vectors, ci>>

rotVars == <<impl, accelerations, delta_thetas, initial_angular_position,
             initial_quaternion, quaternions, array, reduced, angular_positions>>

alignVars == <<gnss_position, stationary_times, wi, size, motion_time_end,
               rotation_angle, new_vectors>>

\* the variables of align_to_world other than the interval list
alignOwn == <<gnss_position, wi, size, motion_time_end, rotation_angle, new_vectors>>

\* the variables of rotate_accelerations other than the accelerations
rotOwn == <<impl, delta_thetas, initial_angular_position, initial_quaternion,
            quaternions, array, reduced, angular_positions>>

statVars == <<gps_speed, speed_threshold, first_true, last_true, ti>>

biasVars == <<stage, angular_velocities, bi>>

rdVars == <<window_argument, window_dimension, rj, rd_times, rd_vectors>>

argVars == <<arg_accelerations, arg_angular_velocities>>

xyVars == <<candidates, xk, best_bad_vector, best_key>>

worldVars == <<motion_time>>

signVars == <<velocities, sign_inversion>>

pipeVars == <<raw_times, times_in, times_view, series_len, gnss_view, stages>>

velVars == <<positions, win_size, vi>>

vars == <<pc, intVars, rotVars, alignVars, statVars, biasVars, rdVars, argVars, xyVars,
          worldVars, signVars, pipeVars, velVars>>

\* Python's None; a value that may be None is <<>> or <<v>>
None == <<>>
Some(v) == <<v>>
Val(o) == o[1]

----------------------------------------------------------------------------
(* Exact rational arithmetic standing for the source's float arithmetic.    *)

Abs(a) == IF a < 0 THEN -a ELSE a

RECURSIVE GCD(_, _)
GCD(a, b) == IF b = 0 THEN Abs(a) ELSE GCD(b, a % b)

LCM(a, b) == (a \div GCD(a, b)) * b

\* the rational n/d in lowest terms with a positive denominator
R(n, d) ==
    LET s == IF d < 0 THEN -1 ELSE 1
        g == GCD(Abs(n), Abs(d))
    IN  [n |-> (s * n) \div g, d |-> (s * d) \div g]

RInt(k) == [n |-> k, d |-> 1]
RZero == RInt(0)
RNeg(a) == [n |-> -a.n, d |-> a.d]

RAdd(a, b) ==
    LET l == LCM(a.d, b.d)
    IN  R(a.n * (l \div a.d) + b.n * (l \div b.d), l)

RSub(a, b) == RAdd(a, RNeg(b))

RMul(a, b) ==
    IF a.n = 0 \/ b.n = 0 THEN RZero
    ELSE LET g1 == GCD(Abs(a.n), b.d)
             g2 == GCD(Abs(b.n), a.d)
         IN  [n |-> (a.n \div g1) * (b.n \div g2), d |-> (a.d \div g2) * (b.d \div g1)]

\* a / b for b # 0
RDiv(a, b) == RMul(a, R(b.d, b.n))

RAbs(a) == [n |-> Abs(a.n), d |-> a.d]

\* a <= k for an integer k
RLeInt(a, k) == a.n <= k * a.d

----------------------------------------------------------------------------
(* integrate.py: simps_integrate_delta                                      *)

Rows(m) == Cardinality(DOMAIN m)
Cols(m) == Cardinality(DOMAIN m[0])

Zeros(rows, columns) == [r \in 0..rows-1 |-> [j \in 0..columns-1 |-> RZero]]

\* the three knots / samples starting at column k (times[k:k+3], vectors[:, k:k+3])
Window(f, k) == [j \in 0..2 |-> f[k + j]]

\* product of (xs[i] - xs[j]) over the two j # i
KnotDen(xs, i) ==
    LET o == CHOOSE p \in (0..2) \X (0..2) : p[1] < p[2] /\ p[1] # i /\ p[2] # i
    IN  (xs[i] - xs[o[1]]) * (xs[i] - xs[o[2]])

KnotSum(xs, i) ==
    LET o == CHOOSE p \in (0..2) \X (0..2) : p[1] < p[2] /\ p[1] # i /\ p[2] # i
    IN  xs[o[1]] + xs[o[2]]

KnotProd(xs, i) ==
    LET o == CHOOSE p \in (0..2) \X (0..2) : p[1] < p[2] /\ p[1] # i /\ p[2] # i
    IN  xs[o[1]] * xs[o[2]]

\* A, B, C = inv([[x^2, x, 1]...]) . y : the parabola through (xs[i], ys[i])
ParabCoeffs(xs, ys) ==
    LET term(i, k) == RDiv(RMul(ys[i], RInt(k)), RInt(KnotDen(xs, i)))
        sum3(f(_)) == RAdd(f(0), RAdd(f(1), f(2)))
        a(i) == term(i, 1)
        b(i) == term(i, -KnotSum(xs, i))
        c(i) == term(i, KnotProd(xs, i))
    IN  [A |-> sum3(a), B |-> sum3(b), C |-> sum3(c)]

\* Integrator.integrator_fun(x1, x3)
IntegratorFun(co, x1, x3) ==
    RAdd(RMul(RDiv(co.A, RInt(3)), RInt(x3 * x3 * x3 - x1 * x1 * x1)),
         RAdd(RMul(RDiv(co.B, RInt(2)), RInt(x3 * x3 - x1 * x1)),
              RMul(co.C, RInt(x3 - x1))))

\* get_parab_integrator(x, vector_locals): one integrator per row
GetParabIntegrator(xs, vector_locals) ==
    [r \in DOMAIN vector_locals |-> ParabCoeffs(xs, vector_locals[r])]

\* columns after "if columns % 2 == 0: columns = columns - 1"
OddColumns(n) == IF n % 2 = 0 THEN n - 1 ELSE n

\* deltas[:, j] = [integrator(a, b) for integrator in ints]
SetColumn(m, j, ints, a, b) ==
    [r \in DOMAIN m |-> [m[r] EXCEPT ![j] = IntegratorFun(ints[r], a, b)]]

\* the refit of the last column never taken
AllNonZeroAlways(m, j) == TRUE

\* Python's all(deltas[:, -1]): every component is non-zero
AllNonZero(m, j) == \A r \in DOMAIN m : m[r][j].n # 0

\* one iteration of "for i in range(0, columns - 2)"
SimpsLoopStep ==
    /\ pc = "simps_loop"
    /\ LET i == IF si = None THEN 0 ELSE Val(si) + 1
           xs == Window(times, i)
           ints == GetParabIntegrator(xs, [r \in DOMAIN vectors |-> Window(vectors[r], i)])
       IN  /\ i < OddColumns(Cols(vectors)) - 2
           /\ si' = Some(i)
           /\ x' = xs
           /\ integrators' = ints
           /\ deltas' = SetColumn(deltas, i + 1, ints, xs[0], xs[1])
    /\ UNCHANGED <<velVars, pipeVars, signVars, worldVars, xyVars, argVars, rdVars, statVars, biasVars, pc, times, vectors, initial, adjust_data, adjust_frequency,
                   delta_vectors, result_vectors, ci, rotVars, alignVars>>

\* the loop is exhausted: "deltas[:, i + 2] = ..." with the loop's last i;
\* with fewer than three columns i was never bound and the statement raises
SimpsLast ==
    /\ pc = "simps_loop"
    /\ LET nxt == IF si = None THEN 0 ELSE Val(si) + 1
       IN  nxt >= OddColumns(Cols(vectors)) - 2
    /\ IF si = None
       THEN /\ pc' = "error"
            /\ UNCHANGED deltas
       ELSE /\ pc' = "simps_last"
            /\ deltas' = SetColumn(deltas, Val(si) + 2, integrators, x[1], x[2])
    /\ UNCHANGED <<velVars, pipeVars, signVars, worldVars, xyVars, argVars, rdVars, statVars, biasVars, times, vectors, initial, adjust_data, adjust_frequency,
                   integrators, x, si, delta_vectors, result_vectors, ci, rotVars, alignVars>>

\* "if all(deltas[:, -1]) == 0": refit on the last three samples; return deltas
SimpsReturn ==
    /\ pc = "simps_last"
    /\ LET n == Cols(vectors)
           xs == Window(times, Cardinality(DOMAIN times) - 3)
           ints == GetParabIntegrator(xs, [r \in DOMAIN vectors |-> Window(vectors[r], n - 3)])
           out == IF ~AllNonZero(deltas, n - 1)
                  THEN SetColumn(deltas, n - 1, ints, xs[1], xs[2])
                  ELSE deltas
       IN  /\ deltas' = out
           /\ delta_vectors' = out
           /\ x' = IF ~AllNonZero(deltas, n - 1) THEN xs ELSE x
           /\ integrators' = IF ~AllNonZero(deltas, n - 1) THEN ints ELSE integrators
    /\ pc' = "cum_init"
    /\ UNCHANGED <<velVars, pipeVars, signVars, worldVars, xyVars, argVars, rdVars, statVars, biasVars, times, vectors, initial, adjust_data, adjust_frequency,
                   si, result_vectors, ci, rotVars, alignVars>>

----------------------------------------------------------------------------
(* integrate.py: cumulative_integrate                                       *)

\* "adjust_data is not None and adjust_frequency is not None and i % adjust_frequency == 0"
NeedsAdjust(i) ==
    /\ adjust_data # None
    /\ adjust_frequency # None
    /\ i % Val(adjust_frequency) = 0

\* a hard reset to the reference instead of the weighted blend
BlendReset(adj, prev, delta) == adj

\* no correction at all: the plain cumulative sum
BlendNone(adj, prev, delta) == RAdd(prev, delta)

\* adjust*0.01 + (previous + delta)*0.99
Blend(adj, prev, delta) ==
    RAdd(RMul(adj, R(1, 100)), RMul(RAdd(prev, delta), R(99, 100)))

\* the rows the adjust branch assigns: [:-1] when rows == 3, row 0 when rows == 1
AdjustedRows(rows) ==
    IF rows = 3 THEN 0..1 ELSE IF rows = 1 THEN {0} ELSE {}

\* the row of adjust_data that "adjust_data[:-1, i]" / "adjust_data[0, i]" pairs
\* with row r of the result: a reference of two rows leaves the single row 0
\* after [:-1], which numpy broadcasts onto both assigned rows
AdjustSource(adj, rows, r) ==
    IF rows = 3 /\ Rows(adj) = 3 THEN r ELSE 0

\* the body of the loop over delta_vectors[:, 1:] for index i
CumColumn(res, i) ==
    IF NeedsAdjust(i)
    THEN [r \in DOMAIN res |->
            IF r \in AdjustedRows(Rows(res))
            THEN [res[r] EXCEPT ![i] = Blend(Val(adjust_data)[AdjustSource(Val(adjust_data), Rows(res), r)][i],
                                             res[r][i - 1], delta_vectors[r][i])]
            ELSE res[r]]
    ELSE [r \in DOMAIN res |->
            [res[r] EXCEPT ![i] = RAdd(res[r][i - 1], delta_vectors[r][i])]]

\* entry: rows, columns, then the call of delta_integrate_func (simps_integrate_delta)
CumCall ==
    /\ pc = "call"
    /\ deltas' = Zeros(Rows(vectors), Cols(vectors))
    /\ pc' = "simps_loop"
    /\ UNCHANGED <<velVars, pipeVars, signVars, worldVars, xyVars, argVars, rdVars, statVars, biasVars, times, vectors, initial, adjust_data, adjust_frequency,
                   integrators, x, si, delta_vectors, result_vectors, ci, rotVars, alignVars>>

\* result_vectors = zeros; result_vectors[:, 0] = zeros or initial
CumInit ==
    /\ pc = "cum_init"
    /\ result_vectors' =
         [r \in DOMAIN vectors |->
            [Zeros(Rows(vectors), Cols(vectors))[r] EXCEPT
                ![0] = IF initial = None THEN RZero ELSE Val(initial)[r]]]
    /\ ci' = 1
    /\ pc' = "cum_loop"
    /\ UNCHANGED <<velVars, pipeVars, signVars, worldVars, xyVars, argVars, rdVars, statVars, biasVars, times, vectors, initial, adjust_data, adjust_frequency, deltas,
                   integrators, x, si, delta_vectors, rotVars, alignVars>>

CumStep ==
    /\ pc = "cum_loop"
    /\ ci < Cols(vectors)
    /\ result_vectors' = CumColumn(result_vectors, ci)
    /\ ci' = ci + 1
    /\ UNCHANGED <<velVars, pipeVars, signVars, worldVars, xyVars, argVars, rdVars, statVars, biasVars, pc, times, vectors, initial, adjust_data, adjust_frequency, deltas,
                   integrators, x, si, delta_vectors, rotVars, alignVars>>

CumReturn ==
    /\ pc = "cum_loop"
    /\ ci >= Cols(vectors)
    /\ pc' = "done"
    /\ UNCHANGED <<velVars, pipeVars, signVars, worldVars, xyVars, argVars, rdVars, statVars, biasVars, intVars, rotVars, alignVars>>

IntIdle ==
    /\ times = None /\ vectors = None /\ initial = None /\ adjust_data = None
    /\ adjust_frequency = None /\ deltas = None /\ integrators = None /\ x = None
    /\ si = None /\ delta_vectors = None /\ result_vectors = None /\ ci = None

RotOwnIdle ==
    /\ impl = None /\ delta_thetas = None
    /\ initial_angular_position = None /\ initial_quaternion = None
    /\ quaternions = None /\ array = None /\ reduced = None
    /\ angular_positions = None

RotIdle == RotOwnIdle /\ accelerations = None

AlignOwnIdle ==
    /\ gnss_position = None /\ wi = None
    /\ size = None /\ motion_time_end = None /\ rotation_angle = None
    /\ new_vectors = None

AlignIdle == AlignOwnIdle /\ stationary_times = None

StatIdle ==
    /\ gps_speed = None /\ speed_threshold = None /\ first_true = None
    /\ last_true = None /\ ti = None

RdIdle ==
    /\ window_argument = None /\ window_dimension = None /\ rj = None
    /\ rd_times = None /\ rd_vectors = None

ArgIdle ==
    /\ arg_accelerations = None /\ arg_angular_velocities = None

XyIdle ==
    /\ candidates = None /\ xk = None /\ best_bad_vector = None
    /\ best_key = None

WorldIdle ==
    /\ motion_time = None

SignIdle ==
    /\ velocities = None /\ sign_inversion = None

PipeIdle ==
    /\ raw_times = None /\ times_in = None /\ times_view = None
    /\ series_len = None /\ gnss_view = None /\ stages = None

VelIdle ==
    /\ positions = None /\ win_size = None /\ vi = None

BiasIdle ==
    /\ stage = None /\ angular_velocities = None /\ bi = None

----------------------------------------------------------------------------
(* Inputs of cumulative_integrate                                           *)

\* longest series integrated without / with adjustment data
MaxLen == 4
MaxAdjLen == 3

Gaps == {1, 2}

RECURSIVE GridAt(_, _)
GridAt(gaps, j) == IF j = 0 THEN 0 ELSE GridAt(gaps, j - 1) + gaps[j]

\* strictly increasing timestamp grids of n samples starting at 0
Grids(n) == {[j \in 0..n-1 |-> GridAt(gaps, j)] : gaps \in [1..n-1 -> Gaps]}

RatRow(f) == [j \in DOMAIN f |-> RInt(f[j])]

\* samples of a*t^2 + b*t + c, the sample at index k raised by z
Samples(t, a, b, c, k, z) ==
    [j \in DOMAIN t |-> a * t[j] * t[j] + b * t[j] + c + (IF j = k THEN z ELSE 0)]

SampleRows(t) ==
    {Samples(t, a, b, c, k, z) :
        a \in {0, 1}, b \in {-1, 0}, c \in {0, 2},
        k \in DOMAIN t, z \in {0, 1}}

\* a series of 1 or 3 rows built from one row: row r is the row shifted by r
Stack(rows, f) == [r \in 0..rows-1 |-> [j \in DOMAIN f |-> RInt(f[j] + r)]]

\* constant samples: the parabola fits are exact and every delta is c * gap
ConstRows(t) == {[j \in DOMAIN t |-> c] : c \in {1, 2}}

\* a reference whose increments differ from c * gap by at most 1 per step
RECURSIVE RefAt(_, _, _, _)
RefAt(t, c, eps, j) ==
    IF j = 0 THEN 0 ELSE RefAt(t, c, eps, j - 1) + c * (t[j] - t[j - 1]) - eps[j]

RefRows(t, c) ==
    {[j \in DOMAIN t |-> RefAt(t, c, eps, j)] :
        eps \in [1..Cardinality(DOMAIN t)-1 -> {-1, 0, 1}]}

InitPlain ==
    \E n \in 2..MaxLen : \E t \in Grids(n) : \E f \in SampleRows(t) :
    \E rows \in {1, 3} : \E i0 \in {0, 1} :
        /\ times = t
        /\ vectors = Stack(rows, f)
        /\ initial = IF i0 = 0 THEN None ELSE Some([r \in 0..rows-1 |-> RInt(r + 1)])
        /\ adjust_data = None
        /\ adjust_frequency = None

InitAdjusted ==
    \E n \in 3..MaxAdjLen : \E t \in Grids(n) : \E f \in ConstRows(t) :
    \E g \in RefRows(t, f[0]) : \E rows \in 1..3 :
    \E dev \in {-99, 0, 99, 198} : \E p \in {1, 2} :
        /\ times = t
        /\ vectors = Stack(rows, f)
        /\ adjust_data = Some([r \in 0..rows-1 |-> [j \in DOMAIN g |-> RInt(g[j] + r * t[j])]])
        /\ initial = Some([r \in 0..rows-1 |-> RInt(dev)])
        /\ adjust_frequency = Some(p)

Init ==
    /\ VelIdle
    /\ PipeIdle
    /\ SignIdle
    /\ WorldIdle
    /\ XyIdle
    /\ ArgIdle
    /\ RdIdle
    /\ pc = "call"
    /\ InitPlain \/ InitAdjusted
    /\ deltas = None
    /\ integrators = None
    /\ x = None
    /\ si = None
    /\ delta_vectors = None
    /\ result_vectors = None
    /\ ci = None
    /\ RotIdle
    /\ AlignIdle
    /\ StatIdle
    /\ BiasIdle

Next ==
    \/ CumCall
    \/ SimpsLoopStep
    \/ SimpsLast
    \/ SimpsReturn
    \/ CumInit
    \/ CumStep
    \/ CumReturn

Spec == Init /\ [][Next]_vars

----------------------------------------------------------------------------
(* Claims about cumulative_integrate and simps_integrate_delta              *)

RECURSIVE SumTo(_, _)
\* row[1] + ... + row[i]
SumTo(row, i) == IF i = 0 THEN RZero ELSE RAdd(SumTo(row, i - 1), row[i])

InitialAt(r) == IF initial = None THEN RZero ELSE Val(initial)[r]

WithAdjust == adjust_data # None /\ adjust_frequency # None

IsAdjustIndex(i) == WithAdjust /\ i % Val(adjust_frequency) = 0

\* the components the correction applies to: all but the last of 3 rows, the only one of 1 row
Corrected(rows) == IF rows = 3 THEN {0, 1} ELSE IF rows = 1 THEN {0} ELSE {}

C2_AltitudePureSum ==
    (pc = "done" /\ WithAdjust /\ Rows(vectors) = 3) =>
        \A i \in 0..Cols(vectors)-1 :
            result_vectors[2][i] = RAdd(InitialAt(2), SumTo(delta_vectors[2], i))

\* the largest integration error of one step of row r: |delta[i] - (reference[i] - reference[i-1])|
StepErrorLe(r, e) ==
    \A i \in 1..Cols(vectors)-1 :
        RLeInt(RAbs(RSub(delta_vectors[r][i],
                         RSub(Val(adjust_data)[r][i], Val(adjust_data)[r][i - 1]))), e)

Deviation(r, i) == RAbs(RSub(result_vectors[r][i], Val(adjust_data)[r][i]))

ErrorBounds == {0, 1}

IsPolynomial(row, a, b, c) ==
    \A j \in DOMAIN row : row[j] = RInt(a * times[j] * times[j] + b * times[j] + c)

\* the integral of a*t^2 + b*t + c over [u, v]
ExactIntegral(a, b, c, u, v) ==
    R(2 * a * (v * v * v - u * u * u) + 3 * b * (v * v - u * u) + 6 * c * (v - u), 6)

Coefficients == (0..1) \X (-1..0) \X (0..4)

\* C4: on a strictly increasing grid of n >= 3 samples of a polynomial of degree
\* <= 2, simps_integrate_delta returns delta[0] = 0 and delta[i] = the exact
\* integral over [t[i-1], t[i]] for every i >= 1, and the cumulative sum is the
\* antiderivative at every sample.
C4_ExactOnParabolas ==
    \A r \in DOMAIN vectors : \A co \in Coefficients :
        IsPolynomial(vectors[r], co[1], co[2], co[3]) =>
            /\ pc \in {"cum_init", "cum_loop", "done"} =>
                /\ delta_vectors[r][0] = RZero
                /\ \A i \in 1..Cols(vectors)-1 :
                     delta_vectors[r][i] =
                        ExactIntegral(co[1], co[2], co[3], times[i - 1], times[i])
            /\ (pc = "done" /\ ~WithAdjust) =>
                \A i \in 0..Cols(vectors)-1 :
                    result_vectors[r][i] =
                        RAdd(InitialAt(r), ExactIntegral(co[1], co[2], co[3], times[0], times[i]))

\* C4 witness: an even number of samples of a true parabola on an irregular grid
C4_Witness ==
    /\ pc = "done"
    /\ ~WithAdjust
    /\ Cols(vectors) = 4
    /\ times[1] - times[0] # times[2] - times[1]
    /\ \E co \in Coefficients : co[1] = 1 /\ IsPolynomial(vectors[0], co[1], co[2], co[3])
    /\ result_vectors[0][3] # RZero

----------------------------------------------------------------------------
(* Quaternions (pyquaternion).  Angles are exact multiples of a quarter turn: *)
(* a rotation vector is an integer 3-vector in units of pi/2 with at most one *)
(* non-zero component, so every quaternion component is (a + b*sqrt(2))/2     *)
(* for integers a, b, written <<a, b, 0>>; <<0, 0, 1>> is NaN.                *)

S2(a, b) == <<a, b, 0>>
S2NaN == <<0, 0, 1>>
S2IsNaN(p) == p[3] = 1

NaNFlag(p, q) == IF p[3] = 1 \/ q[3] = 1 THEN 1 ELSE 0

\* sums and products of numerators; a product of two numbers over 2 is over 4
S2Add(p, q) == IF NaNFlag(p, q) = 1 THEN S2NaN ELSE <<p[1] + q[1], p[2] + q[2], 0>>
S2Neg(p) == <<-p[1], -p[2], p[3]>>
S2Sub(p, q) == S2Add(p, S2Neg(q))
S2Mul(p, q) ==
    IF NaNFlag(p, q) = 1 THEN S2NaN
    ELSE <<p[1] * q[1] + 2 * p[2] * q[2], p[1] * q[2] + p[2] * q[1], 0>>
\* back from a numerator over 4 to a numerator over 2
S2Halve(p) == IF p[3] = 1 THEN S2NaN ELSE <<p[1] \div 2, p[2] \div 2, 0>>

\* cos(k*pi/4) and sin(k*pi/4)
Cos8(k) ==
    LET m == k % 8
    IN  IF m = 0 THEN S2(2, 0)
        ELSE IF m \in {1, 7} THEN S2(0, 1)
        ELSE IF m \in {2, 6} THEN S2(0, 0)
        ELSE IF m \in {3, 5} THEN S2(0, -1)
        ELSE S2(-2, 0)
Sin8(k) == Cos8(k - 2)

QIdentity == <<S2(2, 0), S2(0, 0), S2(0, 0), S2(0, 0)>>

\* the order of the factors reversed
QMulReversed(p, q) ==
    LET t(i, j) == S2Mul(q[i], p[j])
    IN  << S2Halve(S2Sub(S2Sub(S2Sub(t(1, 1), t(2, 2)), t(3, 3)), t(4, 4))),
           S2Halve(S2Sub(S2Add(S2Add(t(1, 2), t(2, 1)), t(3, 4)), t(4, 3))),
           S2Halve(S2Add(S2Add(S2Sub(t(1, 3), t(2, 4)), t(3, 1)), t(4, 2))),
           S2Halve(S2Add(S2Sub(S2Add(t(1, 4), t(2, 3)), t(3, 2)), t(4, 1))) >>

\* Quaternion.__mul__: the Hamilton product p * q
QMul(p, q) ==
    LET t(i, j) == S2Mul(p[i], q[j])
    IN  << S2Halve(S2Sub(S2Sub(S2Sub(t(1, 1), t(2, 2)), t(3, 3)), t(4, 4))),
           S2Halve(S2Sub(S2Add(S2Add(t(1, 2), t(2, 1)), t(3, 4)), t(4, 3))),
           S2Halve(S2Add(S2Add(S2Sub(t(1, 3), t(2, 4)), t(3, 1)), t(4, 2))),
           S2Halve(S2Add(S2Sub(S2Add(t(1, 4), t(2, 3)), t(3, 2)), t(4, 1))) >>

QConj(q) == <<q[1], S2Neg(q[2]), S2Neg(q[3]), S2Neg(q[4])>>

\* Quaternion.exp(Quaternion(vector=v) / 2) for a rotation vector v (units of pi/2):
\* cos(|v|/2) + sin(|v|/2) * v/|v|, the identity for the zero vector
QExpHalf(v) ==
    LET m == v[1] + v[2] + v[3]
        part(c) == IF c = 0 THEN S2(0, 0) ELSE Sin8(m)
    IN  <<Cos8(m), part(v[1]), part(v[2]), part(v[3])>>

\* Quaternion.rotate(vector): the vector part of q * (0, v) * conj(q)
QRotate(q, v) ==
    LET pure == <<S2(0, 0), S2(2 * v[1], 0), S2(2 * v[2], 0), S2(2 * v[3], 0)>>
        r == QMul(QMul(q, pure), QConj(q))
    IN  <<r[2][1] \div 2, r[3][1] \div 2, r[4][1] \div 2>>

\* squared norm 1: sum of ((a + b*sqrt(2))/2)^2 over the four components
QIsUnit(q) ==
    /\ \A i \in 1..4 : ~S2IsNaN(q[i])
    /\ q[1][1] * q[1][1] + q[2][1] * q[2][1] + q[3][1] * q[3][1] + q[4][1] * q[4][1]
         + 2 * (q[1][2] * q[1][2] + q[2][2] * q[2][2] + q[3][2] * q[3][2] + q[4][2] * q[4][2]) = 4
    /\ q[1][1] * q[1][2] + q[2][1] * q[2][2] + q[3][1] * q[3][2] + q[4][1] * q[4][2] = 0

----------------------------------------------------------------------------
(* integrate.py / rotations.py: rotate_accelerations                        *)

\* the accumulated attitude multiplied on the left of the new delta rotation
ReduceLambdaRight(arr, element) == Append(arr, QMul(arr[Len(arr)], element))

\* the lambda of reduce: [*array, element * array[-1]]
ReduceLambda(arr, element) == Append(arr, QMul(element, arr[Len(arr)]))

\* delta_thetas, initial_quaternion and the delta quaternions of delta_thetas[:, 1:]
RotStart ==
    /\ pc = "rot_call"
    /\ initial_quaternion' = QExpHalf(initial_angular_position)
    /\ quaternions' = [k \in 1..Cardinality(DOMAIN delta_thetas)-1 |-> QExpHalf(delta_thetas[k])]
    /\ array' = <<QExpHalf(initial_angular_position)>>
    /\ reduced' = 0
    /\ pc' = "rot_reduce"
    /\ UNCHANGED <<velVars, pipeVars, signVars, worldVars, xyVars, argVars, rdVars, statVars, biasVars, intVars, alignVars, impl, accelerations, delta_thetas,
                   initial_angular_position, angular_positions>>

\* one application of the lambda by reduce
RotReduceStep ==
    /\ pc = "rot_reduce"
    /\ reduced < Len(quaternions)
    /\ array' = ReduceLambda(array, quaternions[reduced + 1])
    /\ reduced' = reduced + 1
    /\ UNCHANGED <<velVars, pipeVars, signVars, worldVars, xyVars, argVars, rdVars, statVars, biasVars, pc, intVars, alignVars, impl, accelerations, delta_thetas,
                   initial_angular_position, initial_quaternion, quaternions,
                   angular_positions>>

\* reduce returns; each acceleration is rotated by its quaternion; both are returned
RotFinish ==
    /\ pc = "rot_reduce"
    /\ reduced = Len(quaternions)
    /\ quaternions' = array
    /\ accelerations' = [j \in DOMAIN accelerations |-> QRotate(array[j + 1], accelerations[j])]
    /\ angular_positions' = [j \in 0..Len(array)-1 |-> array[j + 1]]
    /\ pc' = "rot_done"
    /\ UNCHANGED <<velVars, pipeVars, signVars, worldVars, xyVars, argVars, rdVars, statVars, biasVars, intVars, alignVars, impl, delta_thetas, initial_angular_position,
                   initial_quaternion, array, reduced>>

----------------------------------------------------------------------------
(* gnss_utils.py: align_to_world                                            *)

RNaN == [n |-> 0, d |-> 0]
RIsNaN(a) == a.d = 0

AngleNaN == <<0, 1>>
QNaN == <<S2NaN, S2NaN, S2NaN, S2NaN>>

RECURSIVE SumCols(_, _, _, _)
\* sum of component c of f over the columns lo..hi-1
SumCols(f, c, lo, hi) ==
    IF hi <= lo THEN 0
    ELSE IF hi = lo + 1 THEN f[lo][c]
    ELSE SumCols(f, c, lo, (lo + hi) \div 2) + SumCols(f, c, (lo + hi) \div 2, hi)

Min(a, b) == IF a < b THEN a ELSE b

\* f[:, 0:stop].mean(axis=1), component c; the slice stops at the array's end
\* and the mean of an empty slice is NaN
MeanTo(f, c, stop) ==
    LET hi == Min(stop, Cardinality(DOMAIN f))
    IN  IF hi <= 0 THEN RNaN ELSE R(SumCols(f, c, 0, hi), hi)

\* arctan2(y1, x1) in quarter turns, for a vector on a coordinate axis
ArcTan2(y1, x1) ==
    IF RIsNaN(y1) \/ RIsNaN(x1) THEN AngleNaN
    ELSE CASE y1.n = 0 /\ x1.n >= 0 -> <<0, 0>>
           [] y1.n > 0 /\ x1.n = 0  -> <<1, 0>>
           [] y1.n = 0 /\ x1.n < 0  -> <<2, 0>>
           [] y1.n < 0 /\ x1.n = 0  -> <<-1, 0>>

AngleSub(a, b) == IF a[2] = 1 \/ b[2] = 1 THEN AngleNaN ELSE <<a[1] - b[1], 0>>

\* cos and sin of an angle in quarter turns
CosQ(a) == IF a[2] = 1 THEN RNaN
           ELSE RInt(IF a[1] % 4 = 0 THEN 1 ELSE IF a[1] % 4 = 2 THEN -1 ELSE 0)
SinQ(a) == IF a[2] = 1 THEN RNaN ELSE CosQ(<<a[1] - 1, 0>>)

\* c*u - s*v and s*u + c*v for integers u, v; NaN when the angle is NaN
Rot2(c, s, u, v, sign) ==
    IF RIsNaN(c) \/ RIsNaN(s) THEN RNaN ELSE RInt(c.n * u + sign * s.n * v)

\* Quaternion.exp(Quaternion(vector=rotation_angle * [0, 0, 1]) / 2)
RotationQuaternion(a) == IF a[2] = 1 THEN QNaN ELSE QExpHalf(<<0, 0, a[1]>>)

\* i, motion_time_start, size, motion_time_end; stationary_times[0] of an empty list raises
AlignStart ==
    /\ pc = "rot_done"
    /\ stationary_times # None
    /\ IF Len(Val(stationary_times)) = 0
       THEN /\ pc' = "error"
            /\ UNCHANGED <<wi, size, motion_time_end>>
       ELSE /\ wi' = 0
            /\ size' = Val(stationary_times)[1][1]
            /\ motion_time_end' = Val(stationary_times)[1][1]
            /\ pc' = "align_loop"
    /\ UNCHANGED <<velVars, pipeVars, signVars, worldVars, xyVars, argVars, rdVars, statVars, biasVars, intVars, rotVars, gnss_position, stationary_times, rotation_angle,
                   new_vectors>>

\* one iteration of "while size < 100"; stationary_times[i] past the end raises
AlignLoopStep ==
    /\ pc = "align_loop"
    /\ size < 100
    /\ LET st == Val(stationary_times)
           i == wi + 1
       IN  IF i >= Len(st)
           THEN /\ pc' = "error"
                /\ UNCHANGED <<wi, size, motion_time_end>>
           ELSE LET increase == st[i + 1][1] - st[i][2]
                IN  /\ wi' = i
                    /\ IF increase > 100
                       THEN /\ motion_time_end' = st[i][1] + 100
                            /\ pc' = "align_apply"
                            /\ UNCHANGED size
                       ELSE /\ size' = size + increase
                            /\ UNCHANGED <<pc, motion_time_end>>
    /\ UNCHANGED <<velVars, pipeVars, signVars, worldVars, xyVars, argVars, rdVars, statVars, biasVars, intVars, rotVars, gnss_position, stationary_times, rotation_angle,
                   new_vectors>>

\* the while condition fails
AlignLoopExit ==
    /\ pc = "align_loop"
    /\ size >= 100
    /\ pc' = "align_apply"
    /\ UNCHANGED <<velVars, pipeVars, signVars, worldVars, xyVars, argVars, rdVars, statVars, biasVars, intVars, rotVars, alignVars>>

\* the means over the window, the rotation angle, the rotated vectors and quaternions
AlignApply ==
    /\ pc = "align_apply"
    /\ LET angle_gnss == ArcTan2(MeanTo(gnss_position, 2, motion_time_end),
                                 MeanTo(gnss_position, 1, motion_time_end))
           angle_vector == ArcTan2(MeanTo(accelerations, 2, 100), MeanTo(accelerations, 1, 100))
           angle == AngleSub(angle_gnss, angle_vector)
       IN  /\ rotation_angle' = angle
           /\ angular_positions' =
                 [j \in DOMAIN angular_positions |->
                    QMul(angular_positions[j], RotationQuaternion(rotation_angle'))]
           /\ new_vectors' =
                 [j \in DOMAIN accelerations |->
                    << Rot2(CosQ(rotation_angle'), SinQ(rotation_angle'),
                            accelerations[j][1], accelerations[j][2], -1),
                       Rot2(SinQ(rotation_angle'), CosQ(rotation_angle'),
                            accelerations[j][1], accelerations[j][2], 1),
                       RInt(accelerations[j][3]) >>]
    /\ pc' = "align_done"
    /\ UNCHANGED <<velVars, pipeVars, signVars, worldVars, xyVars, argVars, rdVars, statVars, biasVars, intVars, impl, accelerations, delta_thetas, initial_angular_position,
                   initial_quaternion, quaternions, array, reduced, gnss_position,
                   stationary_times, wi, size, motion_time_end>>

----------------------------------------------------------------------------
(* rotations.py: align_to_world                                             *)

\* sample indexes handed to rotations.align_to_world
MotionTimes == {0, 2, 50}

\* the call of rotations.align_to_world on the rotated accelerations, with the
\* sample index the caller passes; the attitude series is not a parameter
WorldAlign ==
    /\ pc = "rot_done"
    /\ gnss_position # None
    /\ motion_time' \in MotionTimes
    /\ rotation_angle' = ArcTan2(RInt(gnss_position[motion_time'][2]),
                                 RInt(gnss_position[motion_time'][1]))
    /\ new_vectors' =
          [j \in DOMAIN accelerations |->
             << Rot2(CosQ(rotation_angle'), SinQ(rotation_angle'),
                     accelerations[j][1], accelerations[j][2], -1),
                Rot2(SinQ(rotation_angle'), CosQ(rotation_angle'),
                     accelerations[j][1], accelerations[j][2], 1),
                RInt(accelerations[j][3]) >>]
    /\ pc' = "world_done"
    /\ UNCHANGED <<velVars, pipeVars, signVars, xyVars, argVars, rdVars, statVars, biasVars, intVars, rotVars,
                   gnss_position, stationary_times, wi, size, motion_time_end>>

----------------------------------------------------------------------------
(* Inputs of rotate_accelerations and align_to_world                        *)


\* longest series with a free delta rotation at every sample
MaxRotLen == 3
\* length of the series handed on to align_to_world
LongLen == 143

\* rotation vectors in units of pi/2
RotVecs == {<<0, 0, 0>>, <<1, 0, 0>>, <<-1, 0, 0>>, <<0, 1, 0>>, <<0, 0, 1>>, <<2, 0, 0>>, <<0, 3, 0>>}

\* time-ordered, non-overlapping intervals longer than the minimum of get_stationary_times
StationaryLists ==
    { << <<0, 20>> >>,
      << <<0, 20>>, <<125, 140>> >>,
      << <<0, 12>>, <<70, 82>>, <<130, 142>> >>,
      << <<100, 120>> >>,
      << <<120, 135>> >> }

InitRotShort ==
    \E n \in 3..MaxRotLen : \E d \in [1..n-1 -> RotVecs] :
    \E a \in {<<1, 0, 0>>, <<0, 2, 1>>} :
        /\ delta_thetas = [j \in 0..n-1 |-> IF j = 0 THEN <<0, 0, 0>> ELSE d[j]]
        /\ accelerations = [j \in 0..n-1 |-> a]
        /\ gnss_position = None
        /\ stationary_times = None

InitRotLong ==
    \E d1 \in {<<0, 0, 0>>, <<1, 0, 0>>} : \E d2 \in {<<0, 0, 0>>, <<0, 0, 1>>} :
    \E d3 \in {<<0, 0, 0>>, <<0, 0, 2>>} :
    \E u \in {<<1, 0, 0>>, <<0, -1, 0>>} : \E st \in StationaryLists :
        /\ delta_thetas = [j \in 0..LongLen-1 |->
                             IF j = 1 THEN d1 ELSE IF j = 2 THEN d2
                             ELSE IF j = 60 THEN d3 ELSE <<0, 0, 0>>]
        /\ accelerations = [j \in 0..LongLen-1 |-> IF j < 2 THEN <<0, 0, 0>> ELSE <<1, 0, 0>>]
        /\ gnss_position = [j \in 0..LongLen-1 |-> <<j * u[1], j * u[2], 0>>]
        /\ stationary_times = Some(st)

InitRot ==
    /\ VelIdle
    /\ PipeIdle
    /\ SignIdle
    /\ WorldIdle
    /\ XyIdle
    /\ ArgIdle
    /\ RdIdle
    /\ pc = "rot_call"
    /\ impl \in {"integrate", "rotations"}
    /\ initial_angular_position \in {<<0, 0, 0>>, <<0, 0, 1>>, <<1, 0, 0>>}
    /\ InitRotShort \/ InitRotLong
    /\ initial_quaternion = None
    /\ quaternions = None
    /\ array = None
    /\ reduced = None
    /\ angular_positions = None
    /\ wi = None /\ size = None /\ motion_time_end = None
    /\ rotation_angle = None /\ new_vectors = None
    /\ IntIdle
    /\ StatIdle
    /\ BiasIdle

NextRot ==
    \/ RotStart
    \/ RotReduceStep
    \/ RotFinish
    \/ AlignStart
    \/ AlignLoopStep
    \/ AlignLoopExit
    \/ AlignApply
    \/ WorldAlign

SpecRot == InitRot /\ [][NextRot]_vars

----------------------------------------------------------------------------
(* Claims about rotate_accelerations and the attitude series                *)

\* C5: rotate_accelerations returns n quaternions for n samples, q[0] is the
\* quaternion of the initial orientation (the identity for the zero vector) and
\* q[i] = dq[i] * q[i-1] for every i >= 1; wherever dq[i] and q[i-1] do not
\* commute, q[i] differs from q[i-1] * dq[i].
C5_LeftMultiplied ==
    pc = "rot_done" =>
        /\ DOMAIN angular_positions = DOMAIN delta_thetas
        /\ angular_positions[0] = QExpHalf(initial_angular_position)
        /\ initial_angular_position = <<0, 0, 0>> => angular_positions[0] = QIdentity
        /\ \A i \in 1..Cardinality(DOMAIN delta_thetas)-1 :
            LET dq == QExpHalf(delta_thetas[i])
                prev == angular_positions[i - 1]
            IN  /\ angular_positions[i] = QMul(dq, prev)
                /\ QMul(dq, prev) # QMulReversed(dq, prev) =>
                       angular_positions[i] # QMulReversed(dq, prev)

\* C5 witness: a quarter turn about x followed by a quarter turn about y from the
\* identity gives (1 + i + j - k)/2; the opposite order would give (1 + i + j + k)/2
C5_Witness ==
    /\ pc = "rot_done"
    /\ initial_angular_position = <<0, 0, 0>>
    /\ Cardinality(DOMAIN delta_thetas) = 3
    /\ delta_thetas[1] = <<1, 0, 0>>
    /\ delta_thetas[2] = <<0, 1, 0>>
    /\ angular_positions[2] = <<S2(1, 0), S2(1, 0), S2(1, 0), S2(-1, 0)>>

\* C6: every quaternion of the attitude series has norm 1, as returned by
\* rotate_accelerations and after align_to_world has composed the heading
\* correction into it.
C6_UnitNorm ==
    pc \in {"rot_done", "align_loop", "align_apply", "align_done"} =>
        \A j \in DOMAIN angular_positions : QIsUnit(angular_positions[j])

----------------------------------------------------------------------------
(* clean_data_utils.py: get_stationary_times                                *)
(* A speed or threshold <<c, f>> stands for c * 0.05 + f * 1e-15 m/s, so    *)
(* that 1e-15 and the 0.1 steps added to it are both exact; pairs compare   *)
(* lexicographically.                                                       *)

\* len of a 1xn array
Size(a) == Cardinality(DOMAIN a)

SLess(a, b) == a[1] < b[1] \/ (a[1] = b[1] /\ a[2] < b[2])
SNeg(a) == <<-a[1], -a[2]>>
SAdd(a, b) == <<a[1] + b[1], a[2] + b[2]>>

\* speed_threshold = 1e-15
InitialThreshold == <<0, 1>>
\* the 0.1 of "speed_threshold += 0.1"
ThresholdStep == <<2, 0>>
min_stationary_time_length == 10

\* every sample counted as inside the threshold
InsideAlways(speed, threshold) == TRUE

\* one element of boolean_vect: gps_speed > -speed_threshold and gps_speed < speed_threshold
InsideThreshold(speed, threshold) == SLess(SNeg(threshold), speed) /\ SLess(speed, threshold)

\* passes after which the model stops widening the threshold: every speed of the
\* inputs is inside it by then, so later passes repeat (a double stops growing
\* under += 0.1 near 1.1e15)
MaxRelax == 3

\* speed_threshold += 0.1
Relaxed(threshold) ==
    IF threshold[1] >= 2 * MaxRelax THEN threshold ELSE SAdd(threshold, ThresholdStep)

\* speed_threshold = 1e-15; stationary_times = []
StatCall ==
    /\ pc = "stat_call"
    /\ speed_threshold' = InitialThreshold
    /\ stationary_times' = Some(<<>>)
    /\ pc' = "stat_while"
    /\ UNCHANGED <<velVars, pipeVars, signVars, worldVars, xyVars, argVars, rdVars, intVars, rotVars, alignOwn, biasVars, gps_speed, first_true, last_true, ti>>

\* while (len(stationary_times)==0): start a pass, or return stationary_times
StatWhile ==
    /\ pc = "stat_while"
    /\ IF Len(Val(stationary_times)) = 0
       THEN /\ first_true' = None
            /\ last_true' = None
            /\ ti' = Some(0)
            /\ pc' = "stat_for"
       ELSE /\ pc' = "stat_done"
            /\ UNCHANGED <<first_true, last_true, ti>>
    /\ UNCHANGED <<velVars, pipeVars, signVars, worldVars, xyVars, argVars, rdVars, intVars, rotVars, alignVars, biasVars, gps_speed, speed_threshold>>

\* the slice (first, last) is kept when last - first > min_stationary_time_length
KeepSlice(list, first, last) ==
    IF last - first > min_stationary_time_length THEN Append(list, <<first, last>>) ELSE list

\* one iteration of "for i, x in enumerate(boolean_vect)"
StatForStep ==
    /\ pc = "stat_for"
    /\ Val(ti) < Size(gps_speed)
    /\ LET i == Val(ti)
           b == InsideThreshold(gps_speed[i], speed_threshold)
           first1 == IF first_true = None /\ b THEN Some(i) ELSE first_true
           last1 == IF first1 # None /\ b THEN Some(i) ELSE last_true
           ends == first1 # None /\ last1 # None /\ ~b
       IN  /\ first_true' = IF ends THEN None ELSE first1
           /\ last_true' = IF ends THEN None ELSE last1
           /\ stationary_times' =
                 IF ends THEN Some(KeepSlice(Val(stationary_times), Val(first1), Val(last1)))
                 ELSE stationary_times
           /\ ti' = Some(i + 1)
    /\ UNCHANGED <<velVars, pipeVars, signVars, worldVars, xyVars, argVars, rdVars, intVars, rotVars, alignOwn, biasVars, pc, gps_speed, speed_threshold>>

\* after the for loop: the slice that reaches the end of the data, then
\* speed_threshold += 0.1
StatForEnd ==
    /\ pc = "stat_for"
    /\ Val(ti) = Size(gps_speed)
    /\ stationary_times' =
          IF first_true # None /\ last_true # None
          THEN Some(KeepSlice(Val(stationary_times), Val(first_true), Val(last_true)))
          ELSE stationary_times
    /\ speed_threshold' = Relaxed(speed_threshold)
    /\ pc' = "stat_while"
    /\ UNCHANGED <<velVars, pipeVars, signVars, worldVars, xyVars, argVars, rdVars, intVars, rotVars, alignOwn, biasVars, gps_speed, first_true, last_true, ti>>

----------------------------------------------------------------------------
(* Inputs of get_stationary_times                                           *)

\* a speed series is made of up to MaxSegs segments of constant speed
MaxSegs == 3
SegLens == {1, 11, 12}
SegSpeeds == {<<0, 0>>, <<1, 0>>, <<-3, 0>>}

RECURSIVE SegTotal(_)
SegTotal(segs) == IF segs = <<>> THEN 0 ELSE segs[1][2] + SegTotal(Tail(segs))

RECURSIVE SegAt(_, _)
SegAt(segs, j) == IF j < segs[1][2] THEN segs[1][1] ELSE SegAt(Tail(segs), j - segs[1][2])

Series(segs) == [j \in 0..SegTotal(segs)-1 |-> SegAt(segs, j)]

SpeedSeries ==
    UNION { { Series(segs) : segs \in [1..k -> SegSpeeds \X SegLens] } : k \in 0..MaxSegs }

InitStat ==
    /\ VelIdle
    /\ PipeIdle
    /\ SignIdle
    /\ WorldIdle
    /\ XyIdle
    /\ ArgIdle
    /\ RdIdle
    /\ pc = "stat_call"
    /\ gps_speed \in SpeedSeries
    /\ speed_threshold = None
    /\ first_true = None
    /\ last_true = None
    /\ ti = None
    /\ IntIdle
    /\ RotIdle
    /\ AlignIdle
    /\ BiasIdle

NextStat ==
    \/ StatCall
    \/ StatWhile
    \/ StatForStep
    \/ StatForEnd

SpecStat == InitStat /\ [][NextStat]_vars

\* every enabled step of the call is eventually taken
SpecStatFair == SpecStat /\ WF_vars(NextStat)

----------------------------------------------------------------------------
(* Claims about get_stationary_times                                        *)

\* the threshold of the pass that has just ended
ThresholdInForce == <<speed_threshold[1] - ThresholdStep[1], speed_threshold[2]>>

Returned == Val(stationary_times)

\* |speed| < threshold
Below(speed, threshold) ==
    IF SLess(speed, <<0, 0>>) THEN SLess(SNeg(speed), threshold) ELSE SLess(speed, threshold)

InsideRun(first, last, threshold) ==
    \A j \in first..last : Below(gps_speed[j], threshold)

\* first..last is a maximal run of samples inside the threshold
MaximalRun(first, last, threshold) ==
    /\ InsideRun(first, last, threshold)
    /\ first = 0 \/ ~Below(gps_speed[first - 1], threshold)
    /\ last = Size(gps_speed) - 1 \/ ~Below(gps_speed[last + 1], threshold)

\* C7: a returned list is time-ordered and non-overlapping, every interval lies
\* in 0..n-1 with start <= end, and every sample of every interval is inside the
\* threshold of the pass that produced the list.
C7_OrderedInsideThreshold ==
    pc = "stat_done" =>
        /\ \A k \in 1..Len(Returned) :
              /\ 0 <= Returned[k][1]
              /\ Returned[k][1] <= Returned[k][2]
              /\ Returned[k][2] <= Size(gps_speed) - 1
              /\ InsideRun(Returned[k][1], Returned[k][2], ThresholdInForce)
        /\ \A k \in 1..Len(Returned)-1 : Returned[k][2] < Returned[k + 1][1]

\* C7 witness: two intervals found by a pass with a widened threshold
C7_Witness ==
    /\ pc = "stat_done"
    /\ Len(Returned) = 2
    /\ ThresholdInForce # InitialThreshold

\* C8: for the threshold in force, every maximal run of more than 10 samples
\* inside the threshold is in the returned list, whether it ends at a sample
\* outside the threshold or at the end of the series.
C8_EveryLongRunReturned ==
    pc = "stat_done" =>
        \A first \in DOMAIN gps_speed : \A last \in DOMAIN gps_speed :
            (MaximalRun(first, last, ThresholdInForce)
                /\ last - first + 1 > min_stationary_time_length) =>
                \E k \in 1..Len(Returned) : Returned[k] = <<first, last>>

\* C9: every call of get_stationary_times ends, by returning a list or by
\* failing for want of a stationary interval.
C9_Terminates == <>(pc \in {"stat_done", "error"})

----------------------------------------------------------------------------
(* clean_data_utils.py: clear_gyro_drift and correct_z_orientation          *)
(* A sample is a 3-vector of rationals; NaN is RNaN.                        *)

VNaN == <<RNaN, RNaN, RNaN>>
VHasNaN(v) == \E c \in 1..3 : RIsNaN(v[c])
VInt(v) == <<RInt(v[1]), RInt(v[2]), RInt(v[3])>>

\* a - b, NaN when either is
RSubNaN(a, b) == IF RIsNaN(a) \/ RIsNaN(b) THEN RNaN ELSE RSub(a, b)
VSub(v, w) == <<RSubNaN(v[1], w[1]), RSubNaN(v[2], w[2]), RSubNaN(v[3], w[3])>>

RECURSIVE RSumCols(_, _, _, _)
\* sum of component c of f over the columns lo..hi-1
RSumCols(f, c, lo, hi) ==
    IF hi <= lo THEN RZero
    ELSE IF hi = lo + 1 THEN f[lo][c]
    ELSE RAdd(RSumCols(f, c, lo, (lo + hi) \div 2), RSumCols(f, c, (lo + hi) \div 2, hi))

ColsHaveNaN(f, c, lo, hi) == \E j \in lo..hi-1 : RIsNaN(f[j][c])

\* f[:, lo:hi].mean(axis=1); the slice stops at the array's end and the mean
\* of an empty slice is NaN
SliceMean(f, lo, hi) ==
    LET top == Min(hi, Size(f))
        mean(c) == IF top <= lo \/ ColsHaveNaN(f, c, lo, top) THEN RNaN
                   ELSE RDiv(RSumCols(f, c, lo, top), RInt(top - lo))
    IN  <<mean(1), mean(2), mean(3)>>

RECURSIVE ConcatCount(_, _)
\* number of columns of np.concatenate([f[:, s:e] for (s, e) in st], axis=1)
ConcatCount(st, n) ==
    IF st = <<>> THEN 0
    ELSE (IF Min(st[1][2], n) > st[1][1] THEN Min(st[1][2], n) - st[1][1] ELSE 0)
         + ConcatCount(Tail(st), n)

RECURSIVE ConcatSum(_, _, _)
ConcatSum(f, c, st) ==
    IF st = <<>> THEN RZero
    ELSE RAdd(RSumCols(f, c, st[1][1], Min(st[1][2], Size(f))), ConcatSum(f, c, Tail(st)))

\* np.mean(np.concatenate([...], axis=1), axis=1) for a non-empty list
ConcatMean(f, st) ==
    LET count == ConcatCount(st, Size(f))
        mean(c) == IF count = 0 \/ \E k \in 1..Len(st) : ColsHaveNaN(f, c, st[k][1], Min(st[k][2], Size(f)))
                   THEN RNaN
                   ELSE RDiv(ConcatSum(f, c, st), RInt(count))
    IN  <<mean(1), mean(2), mean(3)>>

\* an empty list read as if it held the interval (0, 0)
FirstIntervalDefault(st) == IF Len(st) = 0 THEN Some(<<0, 0>>) ELSE Some(st[1])

\* stationary_times[0]: None stands for the IndexError of an empty list
FirstInterval(st) == IF Len(st) = 0 THEN None ELSE Some(st[1])

\* main_offset removed on all data
GyroCall ==
    /\ pc = "gyro_call"
    /\ LET first == FirstInterval(Val(stationary_times))
       IN  IF first = None
           THEN /\ pc' = "error"
                /\ UNCHANGED <<angular_velocities, bi>>
           ELSE LET main_offset == SliceMean(angular_velocities, Val(first)[1], Val(first)[2])
                IN  /\ angular_velocities' =
                          [j \in DOMAIN angular_velocities |->
                              VSub(angular_velocities[j], main_offset)]
                    /\ bi' = Some(2)
                    /\ pc' = "gyro_loop"
    /\ UNCHANGED <<velVars, pipeVars, signVars, worldVars, xyVars, argVars, rdVars, intVars, rotVars, alignVars, statVars, stage>>

\* one iteration of "for stationary_time in stationary_times[1:]"
GyroLoopStep ==
    /\ pc = "gyro_loop"
    /\ Val(bi) <= Len(Val(stationary_times))
    /\ LET start == Val(stationary_times)[Val(bi)][1]
           end == Val(stationary_times)[Val(bi)][2]
           offset == SliceMean(angular_velocities, start, end)
       IN  angular_velocities' =
              [j \in DOMAIN angular_velocities |->
                  IF j >= start THEN VSub(angular_velocities[j], offset)
                  ELSE angular_velocities[j]]
    /\ bi' = Some(Val(bi) + 1)
    /\ UNCHANGED <<velVars, pipeVars, signVars, worldVars, xyVars, argVars, rdVars, intVars, rotVars, alignVars, statVars, stage, pc>>

\* return angular_velocities
GyroReturn ==
    /\ pc = "gyro_loop"
    /\ Val(bi) > Len(Val(stationary_times))
    /\ pc' = "gyro_done"
    /\ UNCHANGED <<velVars, pipeVars, signVars, worldVars, xyVars, argVars, rdVars, intVars, rotVars, alignVars, statVars, biasVars>>

Sign(k) == IF k > 0 THEN 1 ELSE IF k < 0 THEN -1 ELSE 0

\* arccos(dot(g, (0, 0, 1)) / norm(g)) in quarter turns, for g on a coordinate
\* axis; NaN for the zero vector
GravityAngle(g) ==
    IF VHasNaN(g) \/ (g[1].n = 0 /\ g[2].n = 0 /\ g[3].n = 0) THEN AngleNaN
    ELSE CASE g[1].n = 0 /\ g[2].n = 0 /\ g[3].n > 0 -> <<0, 0>>
           [] g[1].n = 0 /\ g[2].n = 0 /\ g[3].n < 0 -> <<2, 0>>
           [] g[3].n = 0 /\ g[2].n = 0 /\ g[1].n # 0 -> <<1, 0>>
           [] g[3].n = 0 /\ g[1].n = 0 /\ g[2].n # 0 -> <<1, 0>>

\* theta * u_unit in units of pi/2, u = cross(g, (0, 0, 1)); None stands for
\* NaN: u / norm(u) of a zero u
RotationVector(g) ==
    LET theta == GravityAngle(g)
    IN  IF theta = AngleNaN \/ (g[1].n = 0 /\ g[2].n = 0) THEN None
        ELSE Some(<<theta[1] * Sign(g[2].n), -theta[1] * Sign(g[1].n), 0>>)

\* np.exp(quaternion(*(theta * u_unit)) / 2); the exponential of a NaN vector is
\* computed by the quaternion package, outside this repository: the identity
\* (its branch for a norm not above the tolerance) or NaN
Rotators(g) ==
    IF RotationVector(g) = None THEN {QIdentity, QNaN}
    ELSE {QExpHalf(Val(RotationVector(g)))}

QHasNaN(q) == \E i \in 1..4 : S2IsNaN(q[i])

\* (rotator * quaternion(*v) * ~rotator).components[1:]
Sandwich(rotator, v) ==
    IF QHasNaN(rotator) \/ VHasNaN(v) THEN VNaN
    ELSE LET col(c) == QRotate(rotator, [k \in 1..3 |-> IF k = c THEN 1 ELSE 0])
             out(r) == RAdd(RAdd(RMul(RInt(col(1)[r]), v[1]), RMul(RInt(col(2)[r]), v[2])),
                            RMul(RInt(col(3)[r]), v[3]))
         IN  <<out(1), out(2), out(3)>>

\* align_from_g_vector
AlignFromGVector(series, rotator) == [j \in DOMAIN series |-> Sandwich(rotator, series[j])]

\* bad_align_angle > np.deg2rad(10)
BadAlign(g) == GravityAngle(g) # AngleNaN /\ GravityAngle(g)[1] >= 1

\* g over all stationary times (np.concatenate of an empty list raises), then
\* the first alignment
ZCall ==
    /\ pc = "z_call"
    /\ IF Len(Val(stationary_times)) = 0
       THEN /\ pc' = "error"
            /\ UNCHANGED <<accelerations, angular_velocities, bi>>
       ELSE \E rotator \in Rotators(ConcatMean(accelerations, Val(stationary_times))) :
                /\ accelerations' = AlignFromGVector(accelerations, rotator)
                /\ angular_velocities' = AlignFromGVector(angular_velocities, rotator)
                /\ bi' = Some(2)
                /\ pc' = "z_loop"
    /\ UNCHANGED <<velVars, pipeVars, signVars, worldVars, xyVars, argVars, rdVars, intVars, rotOwn, alignVars, statVars, stage>>

\* one iteration of "for stationary_time in stationary_times[1:]"
ZLoopStep ==
    /\ pc = "z_loop"
    /\ Val(bi) <= Len(Val(stationary_times))
    /\ LET g == SliceMean(accelerations, Val(stationary_times)[Val(bi)][1],
                          Val(stationary_times)[Val(bi)][2])
       IN  IF BadAlign(g)
           THEN \E rotator \in Rotators(g) :
                    /\ accelerations' = AlignFromGVector(accelerations, rotator)
                    /\ angular_velocities' = AlignFromGVector(angular_velocities, rotator)
           ELSE UNCHANGED <<accelerations, angular_velocities>>
    /\ bi' = Some(Val(bi) + 1)
    /\ UNCHANGED <<velVars, pipeVars, signVars, worldVars, xyVars, argVars, rdVars, intVars, rotOwn, alignVars, statVars, stage, pc>>

\* return accelerations, angular_velocities
ZReturn ==
    /\ pc = "z_loop"
    /\ Val(bi) > Len(Val(stationary_times))
    /\ pc' = "z_done"
    /\ UNCHANGED <<velVars, pipeVars, signVars, worldVars, xyVars, argVars, rdVars, intVars, rotVars, alignVars, statVars, biasVars>>

----------------------------------------------------------------------------
(* Inputs of clear_gyro_drift and correct_z_orientation                     *)

\* the first HalfLen samples of a series hold one vector, the other HalfLen another
HalfLen == 3
BiasLen == 2 * HalfLen

\* intervals inside the first and inside the second half
FirstHalf == <<0, HalfLen - 1>>
SecondHalf == <<HalfLen, BiasLen - 1>>

TwoPart(v, w) == [j \in 0..BiasLen-1 |-> IF j < HalfLen THEN VInt(v) ELSE VInt(w)]

Rates == {<<0, 0, 0>>, <<1, 0, 0>>, <<0, 2, -1>>}

GyroLists ==
    { <<>>, <<FirstHalf>>, <<FirstHalf, SecondHalf>>,
      << <<0, 2>>, <<2, HalfLen + 1>>, <<HalfLen + 1, BiasLen>> >>,
      << <<1, HalfLen>> >>, << <<0, 1>>, <<HalfLen - 1, HalfLen + 1>> >>, << <<1, 1>> >> }

\* interval lists with accelerations whose means over the intervals lie on an axis
ZInputs ==
    { << <<>>, <<1, 0, 0>>, <<1, 0, 0>> >> }
    \cup { << <<FirstHalf>>, a, b >> :
              a \in {<<1, 0, 0>>, <<0, -2, 0>>, <<0, 0, 1>>, <<0, 0, -1>>, <<0, 0, 0>>},
              b \in {<<0, 0, 1>>, <<0, 1, 1>>} }
    \cup { << <<FirstHalf, SecondHalf>>, p[1], p[2] >> :
              p \in { << <<1, 0, 0>>, <<1, 0, 0>> >>,
                      << <<0, 0, 1>>, <<0, 0, 1>> >>,
                      << <<1, 1, 0>>, <<0, -1, 0>> >>,
                      << <<2, 0, 0>>, <<-1, 0, 0>> >>,
                      << <<0, 0, 3>>, <<0, 0, -1>> >>,
                      << <<-1, 0, 1>>, <<1, 0, 0>> >> } }

InitGyro ==
    /\ pc = "gyro_call"
    /\ stage = "clear_gyro_drift"
    /\ accelerations = None
    /\ stationary_times \in {Some(st) : st \in GyroLists}

InitZ ==
    /\ pc = "z_call"
    /\ stage = "correct_z_orientation"
    /\ \E inp \in ZInputs :
          /\ stationary_times = Some(inp[1])
          /\ accelerations = TwoPart(inp[2], inp[3])

InitBias ==
    /\ VelIdle
    /\ PipeIdle
    /\ SignIdle
    /\ WorldIdle
    /\ XyIdle
    /\ RdIdle
    /\ InitGyro \/ InitZ
    /\ \E w1 \in Rates : \E w2 \in Rates : angular_velocities = TwoPart(w1, w2)
    /\ bi = None
    /\ arg_accelerations = accelerations
    /\ arg_angular_velocities = angular_velocities
    /\ IntIdle
    /\ RotOwnIdle
    /\ AlignOwnIdle
    /\ StatIdle

NextBias ==
    \/ GyroCall
    \/ GyroLoopStep
    \/ GyroReturn
    \/ ZCall
    \/ ZLoopStep
    \/ ZReturn

SpecBias == InitBias /\ [][NextBias]_vars

----------------------------------------------------------------------------
(* Claims about the bias-removal stages                                     *)

\* C10: with an empty list of stationary intervals clear_gyro_drift and
\* correct_z_orientation each end in an error: the call never reaches its loop
\* or its return, and the series it was given are not replaced.
C10_EmptyListIsError ==
    (stage \in {"clear_gyro_drift", "correct_z_orientation"}
        /\ stationary_times = Some(<<>>)) =>
        /\ pc \in {"gyro_call", "z_call", "error"}
        /\ \E w1 \in Rates : \E w2 \in Rates : angular_velocities = TwoPart(w1, w2)

\* C10 witness: clear_gyro_drift has failed on an empty list
C10_Witness ==
    /\ pc = "error"
    /\ stage = "clear_gyro_drift"
    /\ stationary_times = Some(<<>>)

----------------------------------------------------------------------------
(* clean_data_utils.py: reduce_disturbance                                  *)

\* the variables of the integrator other than times and vectors
intLocals == <<initial, adjust_data, adjust_frequency, deltas, integrators, x, si,
               delta_vectors, result_vectors, ci>>

\* the variables of rotate_accelerations other than array
rotNoArray == <<impl, accelerations, delta_thetas, initial_angular_position,
                initial_quaternion, quaternions, reduced, angular_positions>>

\* window_dimension = 100
FixedWindow == 100

\* round(w / 2): Python rounds a half to the even neighbour
RoundHalf(w) ==
    IF w % 2 = 0 THEN w \div 2
    ELSE IF (w \div 2) % 2 = 0 THEN w \div 2 ELSE w \div 2 + 1

Max(a, b) == IF a > b THEN a ELSE b

\* a slice bound as Python reads it: negative counts from the end, both clamped
PyIndex(k, n) == IF k < 0 THEN Max(n + k, 0) ELSE Min(k, n)

\* f[lo:hi] of a 1xn array, re-indexed from 0
PySlice(f, lo, hi) ==
    LET a == PyIndex(lo, Size(f))
        b == PyIndex(hi, Size(f))
    IN  [j \in 0..(b - a - 1) |-> f[a + j]]

RECURSIVE RowSum(_, _, _)
\* row[lo] + ... + row[hi-1]
RowSum(row, lo, hi) ==
    IF hi <= lo THEN RZero
    ELSE IF hi = lo + 1 THEN row[lo]
    ELSE RAdd(RowSum(row, lo, (lo + hi) \div 2), RowSum(row, (lo + hi) \div 2, hi))

\* array[:, k] after "for i in range(0, window_dimension)": the samples k..k+w-1
\* that exist
WindowSum(row, k, w) == RowSum(row, k, Min(k + w, Size(row)))

\* one pass: the sums, divided by the window from column round(w/2) on
MovingAverage(vs, w) ==
    [r \in DOMAIN vs |->
        [k \in DOMAIN vs[r] |->
            IF k >= RoundHalf(w) THEN RDiv(WindowSum(vs[r], k, w), RInt(w))
            ELSE WindowSum(vs[r], k, w)]]

\* window_dimension = 100, whatever was passed
RdCall ==
    /\ pc = "rd_call"
    /\ window_dimension' = FixedWindow
    /\ rj' = 0
    /\ pc' = "rd_loop"
    /\ UNCHANGED <<velVars, pipeVars, signVars, worldVars, xyVars, argVars, intVars, rotVars, alignVars, statVars, biasVars,
                   window_argument, rd_times, rd_vectors>>

\* one iteration of "for j in range(10)": array is computed from vectors
RdPass ==
    /\ pc = "rd_loop"
    /\ rj < 10
    /\ array' = MovingAverage(vectors, window_dimension)
    /\ rj' = rj + 1
    /\ UNCHANGED <<velVars, pipeVars, signVars, worldVars, xyVars, argVars, intVars, rotNoArray, alignVars, statVars, biasVars, pc,
                   window_argument, window_dimension, rd_times, rd_vectors>>

\* times[new_low_range:new_upper_range], array[:, new_low_range:new_upper_range]
RdReturn ==
    /\ pc = "rd_loop"
    /\ rj = 10
    /\ LET new_low_range == RoundHalf(window_dimension)
           new_upper_range == Cols(vectors) - RoundHalf(window_dimension)
       IN  /\ rd_times' = PySlice(times, new_low_range, new_upper_range)
           /\ rd_vectors' =
                 [r \in DOMAIN array |-> PySlice(array[r], new_low_range, new_upper_range)]
    /\ pc' = "rd_done"
    /\ UNCHANGED <<velVars, pipeVars, signVars, worldVars, xyVars, argVars, intVars, rotVars, alignVars, statVars, biasVars,
                   window_argument, window_dimension, rj>>

----------------------------------------------------------------------------
(* Inputs of reduce_disturbance                                             *)

MaxRdLen == 103
RdLens == {0, 60, 100, 150} \cup 101..MaxRdLen
RdWindows == {20, 100}

\* a ramp, a constant, and a signal that is 0 up to its last ten samples
RdSignal(kind, j, n) ==
    IF kind = 1 THEN j ELSE IF kind = 2 THEN 7 ELSE IF j >= n - 10 THEN 100 ELSE 0

InitRd ==
    /\ VelIdle
    /\ PipeIdle
    /\ SignIdle
    /\ WorldIdle
    /\ XyIdle
    /\ ArgIdle
    /\ pc = "rd_call"
    /\ \E n \in RdLens : \E rows \in {1, 3} : \E kind \in 1..3 :
          /\ times = [j \in 0..n-1 |-> 3 * j + 1]
          /\ vectors = [r \in 0..rows-1 |-> [j \in 0..n-1 |-> RInt((r + 1) * RdSignal(kind, j, n))]]
    /\ window_argument \in RdWindows
    /\ window_dimension = window_argument
    /\ rj = None
    /\ rd_times = None
    /\ rd_vectors = None
    /\ initial = None /\ adjust_data = None /\ adjust_frequency = None
    /\ deltas = None /\ integrators = None /\ x = None /\ si = None
    /\ delta_vectors = None /\ result_vectors = None /\ ci = None
    /\ RotIdle
    /\ AlignIdle
    /\ StatIdle
    /\ BiasIdle

NextRd ==
    \/ RdCall
    \/ RdPass
    \/ RdReturn

SpecRd == InitRd /\ [][NextRd]_vars

----------------------------------------------------------------------------
(* Claims about reduce_disturbance                                          *)

\* C11: the returned timestamps and vectors have the same length, and for an
\* input of n >= w samples and a window argument w that length is n - w, give
\* or take one sample.
C11_LengthFollowsWindow ==
    pc = "rd_done" =>
        /\ Size(rd_times) = Cols(rd_vectors)
        /\ Size(times) >= window_argument =>
              /\ Size(rd_times) >= Size(times) - window_argument - 1
              /\ Size(rd_times) <= Size(times) - window_argument + 1

\* the mean of the w samples lo..lo+w-1 of the row
FullWindowMean(row, lo, w) == RDiv(RowSum(row, lo, lo + w), RInt(w))

\* C12: every returned sample is the mean of a full window of window_dimension
\* consecutive input samples, and its timestamp is the timestamp of the centre
\* sample of that window.
C12_FullCentredWindows ==
    pc = "rd_done" =>
        \A k \in DOMAIN rd_times : \A r \in DOMAIN rd_vectors :
            \E lo \in 0..Size(times)-window_dimension :
                /\ rd_vectors[r][k] = FullWindowMean(vectors[r], lo, window_dimension)
                /\ rd_times[k] \in {times[lo + window_dimension \div 2],
                                    times[lo + (window_dimension - 1) \div 2]}

\* the intervals are (first sample, last sample) pairs inside 0..n-1, in time
\* order and without a common sample
ValidIntervals(st, n) ==
    /\ Len(st) > 0
    /\ \A k \in 1..Len(st) : 0 <= st[k][1] /\ st[k][1] <= st[k][2] /\ st[k][2] <= n - 1
    /\ \A k \in 1..Len(st)-1 : st[k][2] < st[k + 1][1]

\* |a| < 0.01; false for NaN
BelowDriftTolerance(a) == Abs(a.n) * 100 < a.d

\* C13: after clear_gyro_drift the mean angular velocity over the samples
\* start..end of every stationary interval is below the drift tolerance 0.01 on
\* every axis.
C13_IntervalMeansZero ==
    (pc = "gyro_done" /\ ValidIntervals(Val(stationary_times), Size(angular_velocities))) =>
        \A k \in 1..Len(Val(stationary_times)) : \A c \in 1..3 :
            BelowDriftTolerance(
                SliceMean(angular_velocities, Val(stationary_times)[k][1],
                          Val(stationary_times)[k][2] + 1)[c])

\* a vector along +z
OnVertical(v) == ~VHasNaN(v) /\ v[1].n = 0 /\ v[2].n = 0 /\ v[3].n > 0

\* a vector that has a direction, and not the vertical one
OffVertical(v) == ~VHasNaN(v) /\ (v[1].n # 0 \/ v[2].n # 0)

\* C14: the first rotation of correct_z_orientation takes the mean acceleration
\* of the first stationary interval onto the vertical axis, whatever the later
\* intervals of the list hold.
C14_FirstIntervalOntoVertical ==
    [][(pc = "z_call" /\ pc' = "z_loop"
         /\ OffVertical(SliceMean(accelerations, Val(stationary_times)[1][1],
                                  Val(stationary_times)[1][2])))
        => OnVertical(SliceMean(accelerations', Val(stationary_times)[1][1],
                                Val(stationary_times)[1][2]))]_vars

\* the cross product of v with (0, 0, 1) is the zero vector
CrossIsZero(v) == ~VHasNaN(v) /\ v[1].n = 0 /\ v[2].n = 0

\* C15: when the gravity estimate of correct_z_orientation has a zero cross
\* product with the vertical axis, a call that returns gives back both series
\* as they were passed (so without NaN, and a second call changes nothing).
C15_VerticalEstimateIsNoOp ==
    (pc = "z_done"
        /\ CrossIsZero(ConcatMean(arg_accelerations, Val(stationary_times)))) =>
        /\ accelerations = arg_accelerations
        /\ angular_velocities = arg_angular_velocities

\* C26: each of the ten passes of reduce_disturbance averages the output of the
\* pass before it, so that the result is the ten-fold iterated moving average
\* and not the average of a single pass.
C26_EachPassAveragesThePrevious ==
    [][(pc = "rd_loop" /\ rj >= 1 /\ rj < 10) =>
          array' = MovingAverage(array, window_dimension)]_vars

----------------------------------------------------------------------------
(* clean_data_utils.py: correct_xy_orientation                              *)

\* a < b; false when either is NaN
RLess(a, b) == a.n * b.d < b.n * a.d

axy_threshold == R(1, 5)
max_axy_threshold == 10
g_z_threshold == R(3, 50)

\* ax_over_threshold, ax_below_threshold (and the same for y) at one sample
OverThreshold(a) == RLess(axy_threshold, a) /\ RLess(a, RInt(max_axy_threshold))
BelowThreshold(a) == RLess(a, RNeg(axy_threshold)) /\ RLess(RInt(-max_axy_threshold), a)

\* the three conditions of candidate k (x1 .. x4) at sample i, and-ed
ConditionValue(k, acc, av, i) ==
    /\ IF k \in {1, 3} THEN OverThreshold(acc[i][1]) ELSE BelowThreshold(acc[i][1])
    /\ IF k \in {1, 2} THEN OverThreshold(acc[i][2]) ELSE BelowThreshold(acc[i][2])
    /\ RLess(RAbs(av[i][3]), g_z_threshold)

\* math.inf of filter_contiguous
Inf == -1

\* one pass of the body of "for i, _ in enumerate(vector.T)"; st.broken is set
\* by the break
FilterBody(st, condition_value, i) ==
    IF st.broken THEN st
    ELSE LET start == IF st.start = Inf /\ condition_value THEN i ELSE st.start
             end == IF start # Inf /\ condition_value THEN i ELSE st.end
         IN  IF start # Inf /\ end # Inf /\ ~condition_value
             THEN IF end - start > 100
                  THEN [start |-> start, end |-> end, broken |-> TRUE]
                  ELSE [start |-> Inf, end |-> Inf, broken |-> FALSE]
             ELSE [start |-> start, end |-> end, broken |-> FALSE]

RECURSIVE FilterLoop(_, _, _, _)
\* the loop over the samples lo..hi-1 in order, from the state st
FilterLoop(cv, lo, hi, st) ==
    IF hi <= lo THEN st
    ELSE IF hi = lo + 1 THEN FilterBody(st, cv[lo], lo)
    ELSE LET half == FilterLoop(cv, lo, (lo + hi) \div 2, st)
         IN  IF half.broken THEN half ELSE FilterLoop(cv, (lo + hi) \div 2, hi, half)

\* vector[:, start:end] as its columns; np.array([]) has none
FilterContiguous(k, acc, av) ==
    LET cv == [i \in DOMAIN acc |-> ConditionValue(k, acc, av, i)]
        st == FilterLoop(cv, 0, Size(acc), [start |-> Inf, end |-> Inf, broken |-> FALSE])
    IN  IF st.start # Inf /\ st.end # Inf
        THEN [j \in 0..(st.end - st.start - 1) |-> acc[st.start + j]]
        ELSE <<>>

\* x1, x2, x3, x4
GetBadAlignmentVectors(acc, av) == [k \in 1..4 |-> FilterContiguous(k, acc, av)]

\* sum of x.shape[1] over the four candidates
GetXyBadAlignCount(acc, av) ==
    LET xs == GetBadAlignmentVectors(acc, av)
    IN  Size(xs[1]) + Size(xs[2]) + Size(xs[3]) + Size(xs[4])

\* the root of a square number
ISqrt(k) == CHOOSE s \in 0..k : s * s = k

\* sqrt(a) for the square of a rational
RSqrt(a) == [n |-> ISqrt(a.n), d |-> ISqrt(a.d)]

\* <<cos(angle), sin(angle)>> of rotatexy for the mean vec of a candidate
RotateAngle(vec) ==
    IF VHasNaN(vec) THEN <<RNaN, RNaN>>
    ELSE IF vec[1].n = 0 /\ vec[2].n = 0 THEN <<RInt(1), RZero>>
    ELSE LET r == RSqrt(RAdd(RMul(vec[1], vec[1]), RMul(vec[2], vec[2])))
             c == RDiv(vec[1], r)
             s == RDiv(vec[2], r)
         IN  IF vec[1].n < 0 /\ vec[2].n # 0
             THEN IF vec[2].n > 0
                  THEN <<RNeg(c), s>>             \* pi - atan2
                  ELSE <<RNeg(c), RNeg(s)>>       \* -(pi - atan2)
             ELSE <<c, RNeg(s)>>                  \* -atan2

\* a * b, NaN when either is
RMulNaN(a, b) == IF RIsNaN(a) \/ RIsNaN(b) THEN RNaN ELSE RMul(a, b)

\* len(bad_align_proof) > 0 and bad_align_proof.shape[1] > 0, taken as true
HasColumnsAlways(bad_align_proof) == TRUE

\* len(bad_align_proof) > 0 and bad_align_proof.shape[1] > 0
HasColumns(bad_align_proof) == Size(bad_align_proof) > 0

\* new_accelerations of rotatexy
RotateXY(acc, bad_align_proof) ==
    IF HasColumns(bad_align_proof)
    THEN LET cs == RotateAngle(SliceMean(bad_align_proof, 0, Size(bad_align_proof)))
         IN  [j \in DOMAIN acc |->
                <<RSubNaN(RMulNaN(cs[1], acc[j][1]), RMulNaN(cs[2], acc[j][2])),
                  RSubNaN(RMulNaN(cs[2], acc[j][1]), RNeg(RMulNaN(cs[1], acc[j][2]))),
                  acc[j][3]>>]
    ELSE acc

\* rotatexy(x)[0], the key of min()
RotateKey(acc, av, bad_align_proof) ==
    GetXyBadAlignCount(RotateXY(acc, bad_align_proof), av)

\* x1, x2, x3, x4 = get_bad_alignment_vectors(accelerations, angular_velocities)
XyCall ==
    /\ pc = "xy_call"
    /\ candidates' = GetBadAlignmentVectors(accelerations, angular_velocities)
    /\ xk' = 1
    /\ pc' = "xy_min"
    /\ UNCHANGED <<velVars, pipeVars, signVars, worldVars, argVars, rdVars, intVars, rotVars, alignVars, statVars, biasVars,
                   best_bad_vector, best_key>>

\* min() reads one candidate: the first of the least key stays
XyMinStep ==
    /\ pc = "xy_min"
    /\ xk <= 4
    /\ \E key \in {RotateKey(accelerations, angular_velocities, candidates[xk])} :
          IF xk = 1 \/ key < best_key
          THEN best_bad_vector' = candidates[xk] /\ best_key' = key
          ELSE UNCHANGED <<best_bad_vector, best_key>>
    /\ xk' = xk + 1
    /\ UNCHANGED <<velVars, pipeVars, signVars, worldVars, argVars, rdVars, intVars, rotVars, alignVars, statVars, biasVars,
                   pc, candidates>>

\* _, accelerations = rotatexy(best_bad_vector); return accelerations
XyReturn ==
    /\ pc = "xy_min"
    /\ xk > 4
    /\ accelerations' = RotateXY(accelerations, best_bad_vector)
    /\ pc' = "xy_done"
    /\ UNCHANGED <<velVars, pipeVars, signVars, worldVars, argVars, rdVars, intVars, rotOwn, alignVars, statVars, stage,
                   angular_velocities, bi, xyVars>>

----------------------------------------------------------------------------
(* Inputs of correct_xy_orientation                                         *)

\* lengths of a run too short to count, of one long enough, and of a long
\* stretch of acceleration along x
XyShort == 2
LongRun == 102
AxisRun == 2 * LongRun

XyVecs == {<<3, 4, 1>>, <<-3, 4, 1>>, <<3, -4, 1>>, <<-3, -4, 1>>, <<5, 0, 1>>, <<12, 5, 1>>}

\* a segment is <<length, acceleration, angular speed around z>>
XyInputs ==
    { << <<XyShort, v, g1>>, <<XyShort, w, g2>> >> :
          v \in XyVecs, w \in XyVecs, g1 \in {0, 1}, g2 \in {0, 1} }
    \cup { << <<LongRun, <<3, 4, 1>>, 0>>, <<XyShort, <<5, 0, 1>>, 0>> >>,
           << <<AxisRun, <<5, 0, 1>>, 0>>, <<LongRun, <<3, 4, 1>>, 0>>,
              <<LongRun, <<-3, 4, 1>>, 0>>, <<LongRun, <<3, -4, 1>>, 0>>,
              <<XyShort, <<-3, -4, 1>>, 0>> >> }

RECURSIVE XyTotal(_, _)
\* samples in the first k segments
XyTotal(segs, k) == IF k = 0 THEN 0 ELSE XyTotal(segs, k - 1) + segs[k][1]

\* the segment sample j lies in
XySegment(segs, j) == segs[CHOOSE k \in 1..Len(segs) : XyTotal(segs, k - 1) <= j /\ j < XyTotal(segs, k)]

InitXy ==
    /\ VelIdle
    /\ PipeIdle
    /\ SignIdle
    /\ WorldIdle
    /\ pc = "xy_call"
    /\ stage = "correct_xy_orientation"
    /\ \E segs \in XyInputs :
          /\ accelerations = [j \in 0..XyTotal(segs, Len(segs))-1 |-> VInt(XySegment(segs, j)[2])]
          /\ angular_velocities =
                [j \in 0..XyTotal(segs, Len(segs))-1 |-> VInt(<<0, 0, XySegment(segs, j)[3]>>)]
    /\ arg_accelerations = accelerations
    /\ arg_angular_velocities = angular_velocities
    /\ XyIdle
    /\ bi = None
    /\ IntIdle
    /\ RotOwnIdle
    /\ AlignIdle
    /\ StatIdle
    /\ RdIdle

NextXy ==
    \/ XyCall
    \/ XyMinStep
    \/ XyReturn

SpecXy == InitXy /\ [][NextXy]_vars

----------------------------------------------------------------------------
(* Claims about correct_xy_orientation                                      *)

\* C16: the bad-alignment count of the accelerations correct_xy_orientation
\* returns is at most the count of the accelerations it was passed.
C16_CountNeverGrows ==
    pc = "xy_done" =>
        GetXyBadAlignCount(accelerations, angular_velocities)
            <= GetXyBadAlignCount(arg_accelerations, arg_angular_velocities)

\* C17: when get_bad_alignment_vectors finds no candidate for any of the four
\* sign combinations, correct_xy_orientation does not fail and returns the
\* accelerations it was passed, sample for sample.
C17_NoCandidateIsNoOp ==
    (stage = "correct_xy_orientation"
        /\ GetXyBadAlignCount(arg_accelerations, arg_angular_velocities) = 0) =>
        /\ pc # "error"
        /\ pc = "xy_done" => accelerations = arg_accelerations

\* C17 witness: a call without candidates has returned
C17_Witness ==
    /\ pc = "xy_done"
    /\ stage = "correct_xy_orientation"
    /\ \A k \in 1..4 : Size(candidates[k]) = 0
    /\ accelerations = arg_accelerations

\* C24: every non-empty candidate of get_bad_alignment_vectors is a run of at
\* least 100 samples, each with the signs of its combination; a shorter run,
\* one that reaches the end of the series included, is never returned.
C24_CandidatesAreLongRuns ==
    candidates # None =>
        \A k \in 1..4 :
            Size(candidates[k]) > 0 =>
                /\ Size(candidates[k]) >= 100
                /\ \A j \in DOMAIN candidates[k] :
                      /\ IF k \in {1, 3} THEN OverThreshold(candidates[k][j][1])
                                         ELSE BelowThreshold(candidates[k][j][1])
                      /\ IF k \in {1, 2} THEN OverThreshold(candidates[k][j][2])
                                         ELSE BelowThreshold(candidates[k][j][2])

\* the mean of a candidate after rotatexy has turned the candidate by its angle
RotatedMean(k) ==
    SliceMean(RotateXY(candidates[k], candidates[k]), 0, Size(candidates[k]))

\* C25: for a non-empty candidate, in whichever quadrant its mean lies, the
\* angle rotatexy computes puts the mean on the x axis: its y is 0.
C25_MeanOntoXAxis ==
    candidates # None =>
        \A k \in 1..4 :
            HasColumns(candidates[k]) =>
                RotatedMean(k)[2].n = 0 /\ RotatedMean(k)[2].d # 0

----------------------------------------------------------------------------
(* Claims about align_to_world                                              *)

\* bearing of the mean of the integer vectors f[lo .. hi-1] in the xy plane
Bearing(f, lo, hi) ==
    IF hi <= lo THEN AngleNaN
    ELSE ArcTan2(R(SumCols(f, 2, lo, hi), hi - lo), R(SumCols(f, 1, lo, hi), hi - lo))

\* new_vectors is accelerations turned by the angle about the vertical axis
TurnedBy(angle) ==
    /\ DOMAIN new_vectors = DOMAIN accelerations
    /\ \A j \in DOMAIN accelerations :
          /\ new_vectors[j][1] = Rot2(CosQ(angle), SinQ(angle),
                                      accelerations[j][1], accelerations[j][2], -1)
          /\ new_vectors[j][2] = Rot2(SinQ(angle), CosQ(angle),
                                      accelerations[j][1], accelerations[j][2], 1)
          /\ angle # AngleNaN => new_vectors[j][3] = RInt(accelerations[j][3])

\* every quaternion of the attitude series is the one rotate_accelerations
\* returned, multiplied by the rotation of the angle about the vertical axis
ComposedWith(angle) ==
    \A j \in DOMAIN angular_positions :
        \/ angular_positions[j] = QMul(array[j + 1], RotationQuaternion(angle))
        \/ angular_positions[j] = QMul(RotationQuaternion(angle), array[j + 1])

\* C18: each align_to_world turns every sample about the vertical axis by the
\* bearing of the GNSS positions over its reference window minus the bearing of
\* the vectors over the same window, keeps the vertical components and
\* multiplies that rotation into every quaternion of the attitude series.
C18_BearingDifference ==
    /\ pc = "align_done" =>
          LET angle == AngleSub(Bearing(gnss_position, 0, motion_time_end),
                                Bearing(accelerations, 0, motion_time_end))
          IN  rotation_angle = angle /\ TurnedBy(angle) /\ ComposedWith(angle)
    /\ pc = "world_done" =>
          LET angle == AngleSub(Bearing(gnss_position, motion_time, motion_time + 1),
                                Bearing(accelerations, motion_time, motion_time + 1))
          IN  rotation_angle = angle /\ TurnedBy(angle) /\ ComposedWith(angle)

\* sample j lies in one of the stationary intervals
InStationary(j) ==
    \E k \in 1..Len(Val(stationary_times)) :
        Val(stationary_times)[k][1] <= j /\ j <= Val(stationary_times)[k][2]

\* C19: the window gnss_utils.align_to_world takes its GNSS mean over holds at
\* least 100 samples and none of them lies inside a stationary interval.
C19_WindowInMotion ==
    pc = "align_done" =>
        /\ motion_time_end >= 100
        /\ \A j \in 0..motion_time_end-1 : ~InStationary(j)

\* C29: for every non-empty, time-ordered list of non-overlapping stationary
\* intervals the search loop of gnss_utils.align_to_world never reads an
\* interval past the end of the list: it leaves only with a window selected.
C29_SearchStaysInsideTheList ==
    [][pc = "align_loop" => pc' # "error"]_vars

----------------------------------------------------------------------------
(* clean_data_utils.py: sign_inversion_is_necessary                         *)

sign_speed_threshold == -4

\* any(v[r] < speed_threshold) for some row r
SignInversionAnyRow(v) ==
    \E r \in DOMAIN v : \E j \in DOMAIN v[r] : RLess(v[r][j], RInt(sign_speed_threshold))

\* any(velocities[0] < speed_threshold)
SignInversionIsNecessary(v) ==
    \E j \in DOMAIN v[0] : RLess(v[0][j], RInt(sign_speed_threshold))

SignCall ==
    /\ pc = "sign_call"
    /\ sign_inversion' = SignInversionIsNecessary(velocities)
    /\ pc' = "sign_done"
    /\ UNCHANGED <<velVars, pipeVars, worldVars, xyVars, argVars, rdVars, intVars, rotVars, alignVars, statVars,
                   biasVars, velocities>>

\* longest velocity series
MaxSignLen == 2

ForwardSpeeds == {RInt(-5), R(-41, 10), RInt(-4), RInt(3), RNaN}
OtherSpeeds == {RInt(-5), RInt(0)}

InitSign ==
    /\ VelIdle
    /\ PipeIdle
    /\ pc = "sign_call"
    /\ \E n \in 0..MaxSignLen :
       \E f \in [0..n-1 -> ForwardSpeeds] : \E g \in [0..n-1 -> OtherSpeeds] :
       \E h \in [0..n-1 -> OtherSpeeds] :
          velocities = [r \in 0..2 |-> IF r = 0 THEN f ELSE IF r = 1 THEN g ELSE h]
    /\ sign_inversion = None
    /\ WorldIdle
    /\ XyIdle
    /\ ArgIdle
    /\ RdIdle
    /\ IntIdle
    /\ RotIdle
    /\ AlignIdle
    /\ StatIdle
    /\ BiasIdle

NextSign == SignCall

SpecSign == InitSign /\ [][NextSign]_vars

\* C20: sign_inversion_is_necessary returns true exactly when some sample of
\* the first row is below -4 (a sample equal to -4 or NaN does not count),
\* whatever the other rows hold, and it leaves the array it was given as it is.
C20_FirstRowBelowMinusFour ==
    [][pc' = "sign_done" =>
          /\ sign_inversion' =
                (\E j \in DOMAIN velocities[0] :
                    velocities[0][j].d # 0 /\ velocities[0][j].n < -4 * velocities[0][j].d)
          /\ velocities' = velocities]_vars

\* C20 witness: false was returned for a first row that reaches -4, while
\* another row goes below it
C20_Witness ==
    /\ pc = "sign_done"
    /\ sign_inversion = FALSE
    /\ \E j \in DOMAIN velocities[0] : velocities[0][j] = RInt(-4)
    /\ \E j \in DOMAIN velocities[1] : velocities[1][j] = RInt(-5)

----------------------------------------------------------------------------
(* __main__.py: get_positions_times                                         *)

\* window_size of get_positions_times
window_size == 20

\* win_size of get_velocities when the caller passes none
default_win_size == 320

\* the values the name times is bound to
TimesNow == [j \in 0..(times_view[2] - times_view[1] - 1) |-> raw_times[times_view[1] + j]]

\* columns left by reduce_disturbance of an array of n columns: the slice
\* [round(100 / 2) : n - round(100 / 2)]
Reduced(n) == Max(0, n - 2 * RoundHalf(FixedWindow))

\* the other groups of variables, which get_positions_times does not use
pipeFrame == <<signVars, worldVars, xyVars, argVars, rdVars, intVars, rotVars, alignOwn,
               statVars, biasVars>>

\* line 22: times, accelerations = reduce_disturbance(times, accelerations, window_size);
\* the times returned are a slice of the array passed
PipeFilterAccelerations ==
    /\ pc = "pipe_22"
    /\ times_view' = IF Reduced(Size(raw_times)) = 0 THEN <<0, 0>>
                     ELSE <<RoundHalf(FixedWindow), Size(raw_times) - RoundHalf(FixedWindow)>>
    /\ series_len' = Reduced(Size(raw_times))
    /\ pc' = "pipe_24"
    /\ UNCHANGED <<velVars, pipeFrame, stationary_times, raw_times, times_in, gnss_view, stages>>

\* line 24: _, angular_velocities = reduce_disturbance(times, angular_velocities, window_size)
PipeFilterAngular ==
    /\ pc = "pipe_24"
    /\ stages' = Append(stages, "disturbance filter")
    /\ pc' = "pipe_26"
    /\ UNCHANGED <<velVars, pipeFrame, stationary_times, raw_times, times_in, times_view, series_len,
                   gnss_view>>

\* line 26: gnss_positions[:, round(window_size / 2):-round(window_size / 2)]
PipeTruncateGnss ==
    /\ pc = "pipe_26"
    /\ gnss_view' = IF Size(raw_times) <= 2 * RoundHalf(window_size) THEN <<0, 0>>
                    ELSE <<RoundHalf(window_size), Size(raw_times) - RoundHalf(window_size)>>
    /\ pc' = "pipe_28"
    /\ UNCHANGED <<velVars, pipeFrame, stationary_times, raw_times, times_in, times_view, series_len,
                   stages>>

\* lines 28-30: get_velocities and get_accelerations read times[i] for
\* i = 320, 640, ... below the number of GNSS positions
PipeGnssVelocities ==
    /\ pc = "pipe_28"
    /\ pc' = IF gnss_view[2] - gnss_view[1] > default_win_size
                /\ times_view[2] - times_view[1] <= default_win_size
             THEN "error" ELSE "pipe_32"
    /\ UNCHANGED <<velVars, pipeFrame, stationary_times, pipeVars>>

\* line 32: get_stationary_times of the speeds, which are all 0 while the GNSS
\* series is not longer than win_size: one interval over the whole series, or
\* no return when that is not longer than min_stationary_time_length
PipeStationary ==
    /\ pc = "pipe_32"
    /\ IF gnss_view[2] - gnss_view[1] - 1 > min_stationary_time_length
       THEN /\ stationary_times' = Some(<< <<0, gnss_view[2] - gnss_view[1] - 1>> >>)
            /\ stages' = Append(stages, "stationary-interval detection")
            /\ pc' = "pipe_34"
       ELSE /\ pc' = "pipe_hang"
            /\ UNCHANGED <<stationary_times, stages>>
    /\ UNCHANGED <<velVars, pipeFrame, raw_times, times_in, times_view, series_len, gnss_view>>

\* line 34: clear_gyro_drift
PipeGyro ==
    /\ pc = "pipe_34"
    /\ stages' = Append(stages, "gyroscope bias correction")
    /\ pc' = "pipe_35"
    /\ UNCHANGED <<velVars, pipeFrame, stationary_times, raw_times, times_in, times_view, series_len,
                   gnss_view>>

\* line 35: normalize_timestamp(times), times -= times[0] in place
PipeNormalize ==
    /\ pc = "pipe_35"
    /\ IF times_view[2] = times_view[1]
       THEN /\ pc' = "error"
            /\ UNCHANGED raw_times
       ELSE /\ raw_times' = [j \in DOMAIN raw_times |->
                                IF times_view[1] <= j /\ j < times_view[2]
                                THEN raw_times[j] - raw_times[times_view[1]]
                                ELSE raw_times[j]]
            /\ pc' = "pipe_37"
    /\ UNCHANGED <<velVars, pipeFrame, stationary_times, times_in, times_view, series_len, gnss_view,
                   stages>>

\* line 37: correct_z_orientation
PipeZ ==
    /\ pc = "pipe_37"
    /\ stages' = Append(stages, "z-axis alignment")
    /\ pc' = "pipe_40"
    /\ UNCHANGED <<velVars, pipeFrame, stationary_times, raw_times, times_in, times_view, series_len,
                   gnss_view>>

\* line 40: gravity removed from accelerations[2] in place
PipeRemoveG ==
    /\ pc = "pipe_40"
    /\ pc' = "pipe_42"
    /\ UNCHANGED <<velVars, pipeFrame, stationary_times, pipeVars>>

\* line 42: correct_xy_orientation
PipeXy ==
    /\ pc = "pipe_42"
    /\ stages' = Append(stages, "xy-plane alignment")
    /\ pc' = "pipe_45"
    /\ UNCHANGED <<velVars, pipeFrame, stationary_times, raw_times, times_in, times_view, series_len,
                   gnss_view>>

\* line 45: accelerations = rotate_accelerations(...), the pair it returns;
\* simps_integrate_delta reads its loop variable after a loop that did not run
\* when there are fewer than three samples
PipeRotate ==
    /\ pc = "pipe_45"
    /\ IF series_len < 3
       THEN /\ pc' = "error"
            /\ UNCHANGED stages
       ELSE /\ stages' = Append(stages, "attitude integration")
            /\ pc' = "pipe_46"
    /\ UNCHANGED <<velVars, pipeFrame, stationary_times, raw_times, times_in, times_view, series_len,
                   gnss_view>>

\* the arguments of the call of line 46, and the parameters of
\* gnss_utils.align_to_world, none of which has a default
AlignCallArguments == <<"gnss_positions", "accelerations", "stationary_times">>
AlignParameters == <<"gnss_position", "vectors", "stationary_times", "angular_positions">>

\* line 46: accelerations = align_to_world(gnss_positions, accelerations, stationary_times)
PipeAlign ==
    /\ pc = "pipe_46"
    /\ IF Len(AlignCallArguments) # Len(AlignParameters)
       THEN /\ pc' = "error"
            /\ UNCHANGED stages
       ELSE /\ stages' = Append(stages, "world-heading alignment")
            /\ pc' = "pipe_48"
    /\ UNCHANGED <<velVars, pipeFrame, stationary_times, raw_times, times_in, times_view, series_len,
                   gnss_view>>

----------------------------------------------------------------------------
(* Batches handed to get_positions_times                                    *)

MaxPipeLen == 110
PipeLens == {0, 20, 40, 345} \cup 100..MaxPipeLen

InitPipe ==
    /\ VelIdle
    /\ pc = "pipe_22"
    /\ \E n \in PipeLens : \E t0 \in {0, 5} : raw_times = [j \in 0..n-1 |-> t0 + 3 * j]
    /\ times_in = raw_times
    /\ times_view = <<0, Size(raw_times)>>
    /\ series_len = Size(raw_times)
    /\ gnss_view = <<0, Size(raw_times)>>
    /\ stages = <<>>
    /\ stationary_times = None
    /\ SignIdle
    /\ WorldIdle
    /\ XyIdle
    /\ ArgIdle
    /\ RdIdle
    /\ IntIdle
    /\ RotIdle
    /\ AlignOwnIdle
    /\ StatIdle
    /\ BiasIdle

NextPipe ==
    \/ PipeFilterAccelerations
    \/ PipeFilterAngular
    \/ PipeTruncateGnss
    \/ PipeGnssVelocities
    \/ PipeStationary
    \/ PipeGyro
    \/ PipeNormalize
    \/ PipeZ
    \/ PipeRemoveG
    \/ PipeXy
    \/ PipeRotate
    \/ PipeAlign

SpecPipe == InitPipe /\ [][NextPipe]_vars

\* a call that can take a step takes it
SpecPipeFair == SpecPipe /\ WF_vars(NextPipe)

----------------------------------------------------------------------------
(* Claims about get_positions_times                                         *)

PipelineOrder ==
    << "disturbance filter", "stationary-interval detection", "gyroscope bias correction",
       "z-axis alignment", "xy-plane alignment", "attitude integration",
       "world-heading alignment", "velocity integration", "sign-consistency check",
       "position integration" >>

IsPrefix(a, b) == Len(a) <= Len(b) /\ \A k \in 1..Len(a) : a[k] = b[k]

\* C21: for every batch the stages of get_positions_times return in the order
\* disturbance filter, stationary-interval detection, gyroscope bias
\* correction, z-axis alignment, xy-plane alignment, attitude integration,
\* world-heading alignment, velocity integration, sign-consistency check,
\* position integration, and the run gets through all ten.
C21_AllStagesInOrder ==
    /\ [](IsPrefix(stages, PipelineOrder))
    /\ <>(stages = PipelineOrder)

----------------------------------------------------------------------------
(* cumulative_integrate on arguments whose shapes or order do not agree     *)

\* timestamps with two neighbouring knots exchanged: distinct, not ordered
Swapped(t, k) ==
    [j \in DOMAIN t |-> IF j = k THEN t[k + 1] ELSE IF j = k + 1 THEN t[k] ELSE t[j]]

\* one timestamp more than there are samples
InitLonger ==
    \E n \in 3..MaxLen : \E t \in Grids(n + 1) : \E f \in SampleRows([j \in 0..n-1 |-> t[j]]) :
    \E rows \in {1, 3} :
        /\ times = t
        /\ vectors = Stack(rows, f)
        /\ initial = None
        /\ adjust_data = None
        /\ adjust_frequency = None

\* timestamps that go back in time
InitUnordered ==
    \E n \in 3..MaxLen : \E g \in Grids(n) : \E k \in 0..n-2 : \E f \in ConstRows(g) :
    \E rows \in {1, 3} :
        /\ times = Swapped(g, k)
        /\ vectors = Stack(rows, f)
        /\ initial = None
        /\ adjust_data = None
        /\ adjust_frequency = None

\* three rows of accelerations adjusted with the two rows of get_velocities
InitTwoRowReference ==
    \E n \in 3..MaxAdjLen : \E t \in Grids(n) : \E f \in ConstRows(t) :
    \E g \in RefRows(t, f[0]) : \E off \in {0, 5} : \E p \in {1, 2} :
        /\ times = t
        /\ vectors = Stack(3, f)
        /\ adjust_data = Some([r \in 0..1 |-> [j \in DOMAIN g |-> RInt(g[j] + r * off)]])
        /\ initial = Some([r \in 0..2 |-> RZero])
        /\ adjust_frequency = Some(p)

InitIrregular ==
    /\ VelIdle
    /\ PipeIdle
    /\ SignIdle
    /\ WorldIdle
    /\ XyIdle
    /\ ArgIdle
    /\ RdIdle
    /\ pc = "call"
    /\ InitLonger \/ InitUnordered \/ InitTwoRowReference
    /\ deltas = None
    /\ integrators = None
    /\ x = None
    /\ si = None
    /\ delta_vectors = None
    /\ result_vectors = None
    /\ ci = None
    /\ RotIdle
    /\ AlignIdle
    /\ StatIdle
    /\ BiasIdle

SpecIrregular == InitIrregular /\ [][Next]_vars

LengthsDiffer == Cardinality(DOMAIN times) # Cols(vectors)

NonDecreasing == \A j \in DOMAIN times : j = 0 \/ times[j - 1] <= times[j]

\* C22: when the timestamps and the vectors have different lengths, or the
\* timestamps are not monotonically non-decreasing, the call fails with an
\* error: it never builds nor returns an integrated series.
C22_BadArgumentsRejected ==
    (LengthsDiffer \/ ~NonDecreasing) =>
        /\ pc # "done"
        /\ result_vectors = None

\* C27: whenever a column is blended, component r of the result is blended
\* with component r of the reference at the same index and with no other,
\* also when the reference has fewer rows than the integrated series.
C27_SameComponentBlended ==
    [][(pc = "cum_loop" /\ ci < Cols(vectors) /\ NeedsAdjust(ci)) =>
        \A r \in AdjustedRows(Rows(vectors)) :
            result_vectors'[r][ci] =
                RAdd(RMul(Val(adjust_data)[r][ci], R(1, 100)),
                     RMul(RAdd(result_vectors[r][ci - 1], delta_vectors[r][ci]), R(99, 100)))]_vars

----------------------------------------------------------------------------
(* Storage shared between the stages of get_positions_times                 *)

\* C23: no stage writes to a series passed to it and every stage returns
\* storage of its own, so after any number of pipeline steps, the in-place
\* normalize_timestamp included, the timestamps handed to the first stage
\* still hold the values they had.
C23_ArgumentsKeepTheirValues == raw_times = times_in

\* C30: after the disturbance filter and the truncation of line 26 the
\* timestamps, the accelerations, the angular velocities and the GNSS
\* positions have the same length, and index i of each is the same original
\* sample, whatever the length of the batch.
C30_SeriesStayAligned ==
    pc = "pipe_28" =>
        /\ times_view[2] - times_view[1] = series_len
        /\ gnss_view[2] - gnss_view[1] = series_len
        /\ series_len > 0 => gnss_view[1] = times_view[1]

----------------------------------------------------------------------------
(* gnss_utils.py: get_velocities                                            *)

\* the other groups of variables, which get_velocities does not use
velFrame == <<pipeVars, worldVars, xyVars, argVars, rdVars, rotVars, alignVars, statVars,
              biasVars, sign_inversion, vectors, initial, adjust_data, adjust_frequency,
              deltas, integrators, x, si, delta_vectors, result_vectors, ci>>

\* velocities[r, lo:hi] = value
FillRow(row, lo, hi, value) ==
    [j \in DOMAIN row |-> IF lo <= j /\ j < hi THEN value ELSE row[j]]

\* velocities = np.zeros((2, positions.shape[1])); the range starts at win_size
VelCall ==
    /\ pc = "vel_call"
    /\ velocities' = Zeros(2, Size(positions))
    /\ vi' = win_size
    /\ pc' = "vel_loop"
    /\ UNCHANGED <<velFrame, times, positions, win_size>>

\* one iteration of "for i in range(win_size, positions.shape[1], win_size)"
VelStep ==
    /\ pc = "vel_loop"
    /\ vi < Size(positions)
    /\ LET delta_x == positions[vi][1] - positions[vi - win_size][1]
           delta_y == positions[vi][2] - positions[vi - win_size][2]
           delta_t == times[vi] - times[vi - win_size]
       IN  velocities' =
              [r \in 0..1 |->
                  FillRow(velocities[r], vi - win_size, vi,
                          R(IF r = 0 THEN delta_x ELSE delta_y, delta_t))]
    /\ vi' = vi + win_size
    /\ UNCHANGED <<velFrame, pc, times, positions, win_size>>

\* the range is exhausted: return velocities
VelReturn ==
    /\ pc = "vel_loop"
    /\ vi >= Size(positions)
    /\ pc' = "vel_done"
    /\ UNCHANGED <<velFrame, times, positions, win_size, vi, velocities>>

\* longest position series
MaxVelLen == 8

VelWindows == {2, 3}

\* a vehicle at rest, one at constant velocity, one accelerating
VelTrack(kind, j) ==
    IF kind = 1 THEN <<4, 4, 1>>
    ELSE IF kind = 2 THEN <<2 * j, 0 - j, 1>>
    ELSE <<j * j, 3 * j, 1>>

InitVel ==
    /\ pc = "vel_call"
    /\ \E n \in 0..MaxVelLen : \E kind \in 1..3 : \E dt \in {1, 2} :
          /\ times = [j \in 0..n-1 |-> 5 + dt * j]
          /\ positions = [j \in 0..n-1 |-> VelTrack(kind, j)]
    /\ win_size \in VelWindows
    /\ vi = None
    /\ vectors = None /\ initial = None /\ adjust_data = None /\ adjust_frequency = None
    /\ deltas = None /\ integrators = None /\ x = None /\ si = None
    /\ delta_vectors = None /\ result_vectors = None /\ ci = None
    /\ PipeIdle
    /\ SignIdle
    /\ WorldIdle
    /\ XyIdle
    /\ ArgIdle
    /\ RdIdle
    /\ RotIdle
    /\ AlignIdle
    /\ StatIdle
    /\ BiasIdle

NextVel ==
    \/ VelCall
    \/ VelStep
    \/ VelReturn

SpecVel == InitVel /\ [][NextVel]_vars

\* the finite difference of component c over the window of win_size samples
\* that contains sample i
WindowVelocity(c, i) ==
    LET lo == (i \div win_size) * win_size
        hi == lo + win_size
    IN  R(positions[hi][c] - positions[lo][c], times[hi] - times[lo])

\* C28: at every index i of a position series get_velocities returns the
\* finite-difference velocity of the window that contains i, and no index,
\* neither one after the last complete window nor any of a series not longer
\* than the window, keeps the initial 0 while the position changes there.
C28_EveryIndexHasItsVelocity ==
    pc = "vel_done" =>
        \A i \in DOMAIN positions :
            /\ (i \div win_size) * win_size + win_size < Size(positions) =>
                  /\ velocities[0][i] = WindowVelocity(1, i)
                  /\ velocities[1][i] = WindowVelocity(2, i)
            /\ (i > 0 /\ positions[i] # positions[i - 1]) =>
                  velocities[0][i].n # 0 \/ velocities[1][i].n # 0

====
